---- MODULE Spec2Model ----
(***************************************************************************)
(* Model of the patch engine of acttech (src/acttech/patch_apply.py):      *)
(* apply_patch_plan and the helpers it calls, over an explicit file tree.  *)
(*                                                                         *)
(* Texts are sequences of one-character strings, so that line splitting,   *)
(* substring search and replacement are computed as Python computes them.  *)
(* File names are sequences <<stem, suffix, ...>> so that Path.suffix and  *)
(* Path.with_suffix are computed, and the raw "path" of a plan entry is a   *)
(* sequence of tokens (names and separators) so that the backslash         *)
(* replacement and the pathlib parse (POSIX flavour) are computed.         *)
(***************************************************************************)
EXTENDS Integers, Sequences, FiniteSets, TLC

\* ------------------------------------------------------------------ bounds
\* longest plan ("files" list) the model enumerates
MaxPlan == 2
\* number of distinct wall-clock seconds (values of _ts())
MaxClock == 2
\* calls of apply_patch_plan on one root
MaxCalls == 2

\* ------------------------------------------------------------ text helpers
LF == "\n"

\* "".join(seq of texts)
RECURSIVE Join(_)
Join(ss) == IF ss = <<>> THEN <<>> ELSE Head(ss) \o Join(Tail(ss))

\* str.splitlines(True) over the model's alphabet (the only line boundary
\* character of the alphabet is "\n"): each line keeps its line ending.
RECURSIVE SplitFrom(_, _)
SplitFrom(t, cur) ==
    IF t = <<>> THEN (IF cur = <<>> THEN <<>> ELSE <<cur>>)
    ELSE IF Head(t) = LF THEN <<Append(cur, LF)>> \o SplitFrom(Tail(t), <<>>)
    ELSE SplitFrom(Tail(t), Append(cur, Head(t)))

SplitLinesKeep(t) == SplitFrom(t, <<>>)

\* s.startswith(pre)
StartsWith(s, pre) == Len(pre) <= Len(s) /\ SubSeq(s, 1, Len(pre)) = pre

\* s.endswith(suf)
EndsWith(s, suf) ==
    Len(suf) <= Len(s) /\ SubSeq(s, Len(s) - Len(suf) + 1, Len(s)) = suf

\* `m in s` for strings: m occurs as a substring of s
Contains(s, m) == \E k \in 0..(Len(s) - Len(m)) : SubSeq(s, k + 1, k + Len(m)) = m

Max(a, b) == IF a >= b THEN a ELSE b
Min(a, b) == IF a <= b THEN a ELSE b

\* list slices lines[:s] and lines[e:] (0-based, clamped as Python slices are)
SliceTo(lines, s) == SubSeq(lines, 1, Min(Max(s, 0), Len(lines)))
SliceFrom(lines, e) == SubSeq(lines, Min(Max(e, 0), Len(lines)) + 1, Len(lines))

\* ------------------------------------------------------------------ patch ops
\* _replace_range: lines[:s] + new_text + lines[e:]
\*   with s = max(1, start_line) - 1 and e = min(len(lines), max(1, end_line))
_replace_range(text, start_line, end_line, new_text) ==
    LET lines == SplitLinesKeep(text)
        s == Max(1, start_line) - 1
        e == Min(Len(lines), Max(1, end_line))
    IN  Join(SliceTo(lines, s)) \o new_text \o Join(SliceFrom(lines, e))

_delete_range(text, start_line, end_line) ==
    _replace_range(text, start_line, end_line, <<>>)

\* str.replace(find, repl, n) for an empty find: repl goes before every
\* character and at the end, at most n times (n < 0: no limit)
RECURSIVE ReplaceEmpty(_, _, _)
ReplaceEmpty(t, r, n) ==
    IF n = 0 THEN t
    ELSE IF t = <<>> THEN r
    ELSE r \o <<Head(t)>> \o ReplaceEmpty(Tail(t), r, n - 1)

\* str.replace(find, repl, n): leftmost non-overlapping occurrences, at most n
\* of them (n < 0: all)
RECURSIVE StrReplace(_, _, _, _)
StrReplace(t, f, r, n) ==
    IF n = 0 THEN t
    ELSE IF f = <<>> THEN ReplaceEmpty(t, r, n)
    ELSE IF t = <<>> THEN <<>>
    ELSE IF StartsWith(t, f)
         THEN r \o StrReplace(SubSeq(t, Len(f) + 1, Len(t)), f, r, n - 1)
         ELSE <<Head(t)>> \o StrReplace(Tail(t), f, r, n)

\* count is <<>> for None and <<n>> for a number
_replace_text(text, find, replace, count) ==
    IF count = <<>> THEN StrReplace(text, find, replace, -1)
    ELSE StrReplace(text, find, replace, count[1])

\* the loop of _insert_after from line k on; inserted is the loop's flag
RECURSIVE InsertAfterLoop(_, _, _, _, _)
InsertAfterLoop(lines, match, insert_text, once, inserted) ==
    IF lines = <<>> THEN <<>>
    ELSE LET ln == Head(lines)
             hit == Contains(ln, match) /\ (~inserted \/ ~once)
         IN  ln \o (IF hit THEN insert_text ELSE <<>>)
                \o InsertAfterLoop(Tail(lines), match, insert_text, once,
                                   inserted \/ hit)

\* an insert_after that takes once to be false
_insert_after_every(text, match, insert_text, once) ==
    InsertAfterLoop(SplitLinesKeep(text), match, insert_text, FALSE, FALSE)

_insert_after(text, match, insert_text, once) ==
    InsertAfterLoop(SplitLinesKeep(text), match, insert_text, once, FALSE)

RECURSIVE InsertBeforeLoop(_, _, _, _, _)
InsertBeforeLoop(lines, match, insert_text, once, inserted) ==
    IF lines = <<>> THEN <<>>
    ELSE LET ln == Head(lines)
             hit == Contains(ln, match) /\ (~inserted \/ ~once)
         IN  (IF hit THEN insert_text ELSE <<>>) \o ln
                \o InsertBeforeLoop(Tail(lines), match, insert_text, once,
                                    inserted \/ hit)

_insert_before(text, match, insert_text, once) ==
    InsertBeforeLoop(SplitLinesKeep(text), match, insert_text, once, FALSE)

_append_text(text, append_text) ==
    IF ~EndsWith(text, <<LF>>) /\ append_text # <<>> /\ ~StartsWith(append_text, <<LF>>)
    THEN text \o <<LF>> \o append_text
    ELSE text \o append_text

\* An operation of a plan entry: a dict, or something that is not a dict.
\* keys is the set of keys the dict has; a field outside keys is never read.
OpRec(type, keys, a, b, t1, t2, cnt, once) ==
    [isDict |-> TRUE, type |-> type, keys |-> keys, start_line |-> a,
     end_line |-> b, s1 |-> t1, s2 |-> t2, count |-> cnt, once |-> once]

OpReplaceRange(a, b, new_text) ==
    OpRec("replace_range", {"type", "start_line", "end_line", "new_text"},
          a, b, new_text, <<>>, <<>>, TRUE)
OpDeleteRange(a, b) ==
    OpRec("delete_range", {"type", "start_line", "end_line"}, a, b, <<>>, <<>>, <<>>, TRUE)
OpReplaceText(find, replace, cnt) ==
    OpRec("replace_text",
          {"type", "find", "replace"} \cup (IF cnt = <<>> THEN {} ELSE {"count"}),
          0, 0, find, replace, cnt, TRUE)
OpInsertAfter(match, insert_text, once) ==
    OpRec("insert_after", {"type", "match", "insert_text", "once"},
          0, 0, match, insert_text, <<>>, once)
OpInsertBefore(match, insert_text, once) ==
    OpRec("insert_before", {"type", "match", "insert_text", "once"},
          0, 0, match, insert_text, <<>>, once)
OpAppend(text) ==
    OpRec("append", {"type", "text"}, 0, 0, text, <<>>, <<>>, TRUE)
\* an operation whose type is none of the six
OpUnknown == OpRec("rename_file", {"type"}, 0, 0, <<>>, <<>>, <<>>, TRUE)
\* a replace_range without its "end_line": op["end_line"] raises KeyError
OpRangeNoEnd ==
    OpRec("replace_range", {"type", "start_line", "new_text"}, 1, 0, <<"X", LF>>,
          <<>>, <<>>, TRUE)
\* an element of "ops" that is not a dict: op.get raises AttributeError
OpNotDict == [OpRec("", {}, 0, 0, <<>>, <<>>, <<>>, TRUE) EXCEPT !.isDict = FALSE]

OpOk(t) == [ok |-> TRUE, text |-> t, err |-> ""]
OpErr(e) == [ok |-> FALSE, text |-> <<>>, err |-> e]

\* a dispatch that lets an unrecognized operation pass as a no-op
UnknownOpType_ignored(updated, t) == OpOk(updated)

\* lines 203-204: else: raise ValueError(f"Unknown op type: {t}")
UnknownOpType(updated, t) == OpErr("Unknown op type")

\* One iteration of the body of `for op in ops` (the dispatch on op type):
\* the new text, or the exception the iteration raises.
ApplyOp(updated, op) ==
    IF ~op.isDict THEN OpErr("AttributeError")
    ELSE LET t == IF "type" \in op.keys THEN op.type ELSE "None"
             need(ks) == ks \subseteq op.keys
         IN  CASE t = "replace_range" ->
                    IF need({"start_line", "end_line", "new_text"})
                    THEN OpOk(_replace_range(updated, op.start_line, op.end_line, op.s1))
                    ELSE OpErr("KeyError")
               [] t = "delete_range" ->
                    IF need({"start_line", "end_line"})
                    THEN OpOk(_delete_range(updated, op.start_line, op.end_line))
                    ELSE OpErr("KeyError")
               [] t = "replace_text" ->
                    IF need({"find", "replace"})
                    THEN OpOk(_replace_text(updated, op.s1, op.s2,
                                            IF "count" \in op.keys THEN op.count ELSE <<>>))
                    ELSE OpErr("KeyError")
               [] t = "insert_after" ->
                    IF need({"match", "insert_text"})
                    THEN OpOk(_insert_after(updated, op.s1, op.s2,
                                            IF "once" \in op.keys THEN op.once ELSE TRUE))
                    ELSE OpErr("KeyError")
               [] t = "insert_before" ->
                    IF need({"match", "insert_text"})
                    THEN OpOk(_insert_before(updated, op.s1, op.s2,
                                             IF "once" \in op.keys THEN op.once ELSE TRUE))
                    ELSE OpErr("KeyError")
               [] t = "append" ->
                    OpOk(_append_text(updated, IF "text" \in op.keys THEN op.s1 ELSE <<>>))
               [] OTHER -> UnknownOpType(updated, t)

\* The try block around `for op in ops`: the operations are applied in order,
\* each to the text the previous one produced, and the first exception ends
\* the loop. applied counts the operations that completed (len(op_log)).
RECURSIVE ApplyOps(_, _, _)
ApplyOps(updated, ops, applied) ==
    IF ops = <<>> THEN [ok |-> TRUE, text |-> updated, err |-> "", applied |-> applied]
    ELSE LET r == ApplyOp(updated, Head(ops))
         IN  IF r.ok THEN ApplyOps(r.text, Tail(ops), applied + 1)
             ELSE [ok |-> FALSE, text |-> updated, err |-> r.err, applied |-> applied]

\* ------------------------------------------------------------------ state
VARIABLES
    settings,     \* SETTINGS: REQUIRE_CLEAN_GIT, ALLOW_CREATE_FILES; and HOST, the
                  \* os.name of the host, whose path flavour pathlib.Path takes
    plan,         \* the saved plan every apply call is given
    fs,           \* the file tree: path -> node
    apply_log,    \* content of <state dir>/last_apply_log.json
    clock,        \* wall-clock second, the value _ts() formats
    pc,           \* position of the running apply_patch_plan call
    calls,        \* number of calls started on the root so far
    dry_run,      \* argument of the running call
    git,          \* outcome of `git status --porcelain` inside _git_is_clean
    run_id,       \* local run_id of the running call
    i,            \* index of the entry the for loop is at
    results,      \* local results list of the running call
    cur,          \* locals of the entry being written (rel, p, original, updated,
                  \* diff_txt, len(ops)) and the node p was when the entry was read
    raised,       \* the exception the call raised
    stoppedAt,    \* where the process was when it stopped
    fs0,          \* the file tree when the running call started
    log0,         \* the apply log when the running call started
    prev,         \* mode, results and start nodes of the previous returned call
    diffCall,     \* a call of diff_maps: its two snapshots and what it returned
    ctxCall,      \* a call of build_llm_context: its arguments, locals and position
    opCall,       \* a call of one patch operation: its arguments and what it returned
    scanCall,     \* a call of scan_repo: the tree it walks and the snapshot it returned
    planCall      \* a call of plan_patches: the model's responses, locals and position

\* -------------------------------------------------------------------- paths
\* Tokens of a raw path string: a file name, or one of the separators.
SEP == <<"/">>
BSEP == <<"\\">>
DOTDOT == <<"..">>
DOT == <<".">>

\* rel = (f.get("path") or "").replace("\\", "/")
NormRel(raw) == [k \in 1..Len(raw) |-> IF raw[k] = BSEP THEN SEP ELSE raw[k]]

\* Path(rel).parts without the root: pathlib drops empty and "." segments and
\* keeps ".." segments
PathParts(rel) == SelectSeq(rel, LAMBDA t : t \notin {SEP, DOT})

\* the path string starts with a separator
Rooted(rel) == rel # <<>> /\ rel[1] = SEP

\* Path(rel).is_absolute(): on a POSIX host the string starts with "/"; on a
\* Windows host the path must have a drive and a root, and no path of the
\* plans has a drive
IsAbsolute(rel) == IF settings.HOST = "nt" THEN FALSE ELSE Rooted(rel)

\* a path check that forgets the parent-directory segments
_is_safe_rel_path_noParentCheck(rel) == rel # <<>> /\ ~IsAbsolute(rel)

_is_safe_rel_path(rel) ==
    rel # <<>> /\ ~IsAbsolute(rel)
    /\ \A k \in 1..Len(PathParts(rel)) : PathParts(rel)[k] # DOTDOT

\* Path.suffix of a name <<stem, suffix, ...>>
Suffix(name) == IF Len(name) > 1 THEN name[Len(name)] ELSE ""

\* str.lower() on the suffixes of the model
Lower(ext) == IF ext = ".PY" THEN ".py" ELSE ext

\* SETTINGS.TEXT_EXT
TEXT_EXT == {".py", ".js", ".jsx", ".ts", ".tsx", ".json", ".yml", ".yaml",
             ".md", ".txt", ".html", ".css", ".toml", ".ini"}

_ensure_text_allowed(path) ==
    path # <<>> /\ Lower(Suffix(path[Len(path)])) \in TEXT_EXT

\* p = repo_root / rel, as a path from the root: pathlib keeps a ".." segment
\* (the file lies outside the root) and a rel that starts with a separator
\* replaces the root's path (the leading SEP marks a path from the root of
\* the file system, on Windows from the root of the drive)
Resolve(rel) == IF Rooted(rel) THEN <<SEP>> \o PathParts(rel) ELSE PathParts(rel)

Parent(path) == SubSeq(path, 1, Len(path) - 1)
Prefixes(path) == {SubSeq(path, 1, k) : k \in 0..Len(path)}

\* tmp = path.with_suffix(path.suffix + ".tmp")
TmpSibling(path) ==
    Append(Parent(path), Append(path[Len(path)], ".tmp"))

\* SETTINGS.STATE_DIR, SETTINGS.BACKUP_DIR, the log's name, and _ts()
STATE_DIR == <<<<".autoupdater_state">>>>
BACKUP_DIR == <<<<".autoupdater_backups">>>>
LogPath == Append(STATE_DIR, <<"last_apply_log", ".json">>)
_ts(now) == <<ToString(now)>>
BackupDirOf(rid) == Append(BACKUP_DIR, rid)

\* ----------------------------------------------------------------- inputs
A_PY == <<"a", ".py">>
E_PY == <<"e", ".py">>
B_BIN == <<"b", ".bin">>
C_BIN == <<"c", ".bin">>
D_DIR == <<"d">>
N_DIR == <<"n">>

TextA == <<"a", LF>>
TextX == <<"X", LF>>

\* the raw paths of the plan entries the model enumerates
RelEmpty == <<>>
RelParent == <<DOTDOT, SEP, A_PY>>
RelAbsolute == <<SEP, A_PY>>
RelFile == <<A_PY>>
RelNew == <<N_DIR, SEP, E_PY>>
RelDir == <<D_DIR>>
RelBinary == <<B_BIN>>
\* a path below a.py, which is a file
RelUnderFile == <<A_PY, SEP, E_PY>>
\* a file that does not exist, of a type that is not allowed
RelNewBinary == <<C_BIN>>
RelInputs == {RelEmpty, RelParent, RelAbsolute, RelFile, RelNew, RelDir, RelBinary,
              RelUnderFile, RelNewBinary}

OpsAppend == <<OpAppend(TextX)>>
OpsReplace == <<OpReplaceText(<<"a">>, <<"b">>, <<>>)>>
OpsUnknownMid == <<OpAppend(TextX), OpUnknown, OpAppend(TextX)>>
OpsRaises == <<OpRangeNoEnd>>

EntryRec(path, ops) == [isDict |-> TRUE, path |-> path, opsIsList |-> TRUE, ops |-> ops]
\* an element of "files" that is not a dict: f.get raises AttributeError
EntryNotDict == [EntryRec(<<>>, <<>>) EXCEPT !.isDict = FALSE]
\* an entry whose "ops" is not a list
EntryOpsNotList == [EntryRec(RelFile, OpsAppend) EXCEPT !.opsIsList = FALSE]

Entries ==
    {EntryRec(r, OpsAppend) : r \in RelInputs}
    \cup {EntryRec(RelFile, o) : o \in {OpsReplace, OpsUnknownMid, OpsRaises}}
    \cup {EntryRec(RelNew, <<>>)}
    \cup {EntryNotDict, EntryOpsNotList}

SeqsUpTo(S, n) == UNION {[1..k -> S] : k \in 0..n}

\* a plan: the value of plan.get("files", []), a list or something else
Plans ==
    {[isList |-> TRUE, files |-> fl] : fl \in SeqsUpTo(Entries, MaxPlan)}
    \cup {[isList |-> FALSE, files |-> <<>>]}

\* ------------------------------------------------------------ file system
NoneN == [kind |-> "none", text |-> <<>>]
DirN == [kind |-> "dir", text |-> <<>>]
FileN(t) == [kind |-> "file", text |-> t]

\* the paths the entries of the plans name, inside the root and outside it,
\* with their parent directories and temporary siblings
TreeTargets == {Resolve(NormRel(r)) : r \in RelInputs \ {RelEmpty}}
TreePaths ==
    UNION {Prefixes(p) \cup {TmpSibling(p)} : p \in TreeTargets}
\* the paths of the engine's state and backup directories
EnginePaths ==
    (Prefixes(LogPath)
     \cup UNION {Prefixes(BackupDirOf(_ts(c)) \o PathParts(NormRel(r))) :
                    c \in 1..MaxClock, r \in RelInputs}) \ {<<>>}
AllPaths == TreePaths \cup EnginePaths

\* the tree before the first apply
InitTree ==
    [p \in AllPaths |->
        CASE p = <<>> -> DirN
          [] p = <<A_PY>> -> FileN(TextA)
          [] p = <<DOTDOT>> -> DirN
          [] p = <<DOTDOT, A_PY>> -> FileN(TextA)
          [] p = <<SEP>> -> DirN
          [] p = <<SEP, A_PY>> -> FileN(TextA)
          [] p = <<B_BIN>> -> FileN(TextA)
          [] p = <<D_DIR>> -> DirN
          [] OTHER -> NoneN]

\* Path.exists() and Path.is_file()
Exists(f, p) == f[p].kind # "none"
IsFile(f, p) == f[p].kind = "file"

\* Path.mkdir(parents=True, exist_ok=True): raises when a component is a file
MkdirOk(f, d) == \A q \in Prefixes(d) : f[q].kind # "file"
Mkdir(f, d) == [q \in AllPaths |-> IF q \in Prefixes(d) /\ f[q].kind = "none" THEN DirN ELSE f[q]]

\* ------------------------------------------------------------------- diff
\* context_lines of the call _unified_diff(rel, original, updated, context_lines=3)
ContextLines == 3

RECURSIVE CommonPrefix(_, _)
CommonPrefix(a, b) ==
    IF a = <<>> \/ b = <<>> \/ Head(a) # Head(b) THEN 0
    ELSE 1 + CommonPrefix(Tail(a), Tail(b))

Reverse(s) == [k \in 1..Len(s) |-> s[Len(s) + 1 - k]]

\* _unified_diff: the header names and the hunk between the common leading and
\* trailing lines of the two texts, with at most ContextLines lines of context
\* on each side (for texts this short difflib emits one hunk). An empty
\* sequence when the texts are equal, as "".join of no lines is.
_unified_diff(rel, before, after) ==
    LET a == SplitLinesKeep(before)
        b == SplitLinesKeep(after)
        cp == CommonPrefix(a, b)
        ra == SubSeq(a, cp + 1, Len(a))
        rb == SubSeq(b, cp + 1, Len(b))
        cs == CommonPrefix(Reverse(ra), Reverse(rb))
    IN  IF before = after THEN <<>>
        ELSE <<[fromfile |-> <<<<"a/">>>> \o rel,
                tofile |-> <<<<"b/">>>> \o rel,
                lead |-> SubSeq(a, Max(1, cp - ContextLines + 1), cp),
                removed |-> SubSeq(ra, 1, Len(ra) - cs),
                added |-> SubSeq(rb, 1, Len(rb) - cs),
                trail |-> SubSeq(ra, Len(ra) - cs + 1, Min(Len(ra), Len(ra) - cs + ContextLines)),
                alen |-> Len(a), blen |-> Len(b)]>>

\* the variables of the apply engine, and those of the calls of the pure functions
applyVars == <<settings, plan, fs, apply_log, clock, pc, calls, dry_run, git, run_id,
               i, results, cur, raised, stoppedAt, fs0, log0, prev>>
callVars == <<diffCall, ctxCall, opCall, scanCall, planCall>>
vars == <<applyVars, callVars>>

\* no call of the function is under way
NoCall == [pc |-> "none"]

NoLog == [exists |-> FALSE, run_id |-> <<>>, dry_run |-> FALSE, backup_dir |-> <<>>,
          results |-> <<>>]
NoCur == [rel |-> <<>>, p |-> <<>>, original |-> <<>>, updated |-> <<>>,
          diff |-> <<>>, ops |-> 0, before |-> NoneN]
\* the nodes of the tree f at the paths the plans name
TargetNodes(f) == [p \in TreeTargets |-> f[p]]
NoPrev == [valid |-> FALSE, dry_run |-> FALSE, results |-> <<>>,
           nodes |-> TargetNodes(InitTree)]

\* outcomes of subprocess.run(["git", "status", "--porcelain"]):
\* it raises (no git executable), or returns a code and an output
GitRaises == [raises |-> TRUE, returncode |-> 0, stdout_blank |-> TRUE]
GitFails == [raises |-> FALSE, returncode |-> 128, stdout_blank |-> TRUE]
GitClean == [raises |-> FALSE, returncode |-> 0, stdout_blank |-> TRUE]
GitDirty == [raises |-> FALSE, returncode |-> 0, stdout_blank |-> FALSE]
GitNotRun == [raises |-> FALSE, returncode |-> -1, stdout_blank |-> TRUE]
GitOutcomes == {GitRaises, GitFails, GitClean, GitDirty}

\* a status query that fails closed: an error counts as a dirty tree
_git_is_clean_failClosed(g) == ~g.raises /\ g.returncode = 0 /\ g.stdout_blank

_git_is_clean(g) ==
    IF g.raises THEN TRUE
    ELSE IF g.returncode # 0 THEN TRUE
    ELSE g.stdout_blank

\* the state before the first apply on a host of the given os.name
InitOn(host) ==
    /\ settings \in [REQUIRE_CLEAN_GIT : BOOLEAN, ALLOW_CREATE_FILES : BOOLEAN, HOST : {host}]
    /\ plan \in Plans
    /\ fs = InitTree
    /\ apply_log = NoLog
    /\ clock = 1
    /\ pc = "idle"
    /\ calls = 0
    /\ dry_run = FALSE
    /\ git = GitNotRun
    /\ run_id = <<>>
    /\ i = 0
    /\ results = <<>>
    /\ cur = NoCur
    /\ raised = ""
    /\ stoppedAt = ""
    /\ fs0 = InitTree
    /\ log0 = NoLog
    /\ prev = NoPrev
    /\ diffCall = NoCall
    /\ ctxCall = NoCall
    /\ opCall = NoCall
    /\ scanCall = NoCall
    /\ planCall = NoCall

Init == InitOn("posix")

\* ---------------------------------------------------------- apply_patch_plan
\* files = plan.get("files", []); a non-list counts as no files
Files == IF plan.isList THEN plan.files ELSE <<>>

\* a record of results; text is not a key of the record: it keeps the text
\* the entry's file was given (updated) or would be given (would_update)
Result(file, status, reason, ops, diff, text) ==
    [file |-> file, status |-> status, reason |-> reason, ops |-> ops, diff |-> diff,
     text |-> text]

\* what one iteration of `for f in files` comes to before any write:
\*   kind "result": a record is appended and the loop goes on
\*   kind "write":  real mode and a changed text, the backup and write follow
\*   kind "raise":  an exception leaves apply_patch_plan
StepResult(tree, r) == [kind |-> "result", fs |-> tree, result |-> r, cur |-> NoCur, err |-> ""]
StepRaise(tree, e) ==
    [kind |-> "raise", fs |-> tree, result |-> Result(<<>>, "", "", 0, <<>>, <<>>),
     cur |-> NoCur, err |-> e]
StepWrite(tree, c) ==
    [kind |-> "write", fs |-> tree, result |-> Result(<<>>, "", "", 0, <<>>, <<>>),
     cur |-> c, err |-> ""]

\* lines 180-236 up to the branch on dry_run: the operations run on the
\* in-memory text, then failed / noop / would_update, or on to the write
EditEntry(rel, p, ops, original, tree, dry) ==
    LET r == ApplyOps(original, ops, 0)
    IN  IF ~r.ok THEN StepResult(tree, Result(rel, "failed", r.err, 0, <<>>, <<>>))
        ELSE IF r.text = original
        THEN StepResult(tree, Result(rel, "noop", "", Len(ops), <<>>, <<>>))
        ELSE LET diff_txt == _unified_diff(rel, original, r.text)
             IN  IF dry
                 THEN StepResult(tree, Result(rel, "would_update", "", Len(ops), diff_txt, r.text))
                 ELSE StepWrite(tree, [rel |-> rel, p |-> p, original |-> original,
                                       updated |-> r.text, diff |-> diff_txt,
                                       ops |-> Len(ops), before |-> tree[p]])

\* lines 162-170: the entry's file does not exist
MissingFile(rel, p, ops, tree, allow_create, dry) ==
    IF allow_create
    THEN IF MkdirOk(tree, Parent(p))
         THEN EditEntry(rel, p, ops, <<>>, Mkdir(tree, Parent(p)), dry)
         ELSE StepRaise(tree, "FileExistsError")
    ELSE StepResult(tree, Result(rel, "skipped", "not found", 0, <<>>, <<>>))

\* lines 146-178: validation of the entry and the read of its file;
\* readOk is whether p.read_text succeeds
EntryStep(f, tree, allow_create, dry, readOk) ==
    IF ~f.isDict THEN StepRaise(tree, "AttributeError")
    ELSE LET rel == NormRel(f.path)
             ops == IF f.opsIsList THEN f.ops ELSE <<>>
             p == Resolve(rel)
         IN  IF rel = <<>>
             THEN StepResult(tree, Result(<<>>, "skipped", "missing path", 0, <<>>, <<>>))
             ELSE IF ~_is_safe_rel_path(rel)
             THEN StepResult(tree, Result(rel, "skipped", "unsafe path", 0, <<>>, <<>>))
             ELSE IF ~Exists(tree, p)
             THEN MissingFile(rel, p, ops, tree, allow_create, dry)
             ELSE IF ~IsFile(tree, p)
             THEN StepResult(tree, Result(rel, "skipped", "not a file", 0, <<>>, <<>>))
             ELSE IF ~_ensure_text_allowed(p)
             THEN StepResult(tree, Result(rel, "skipped", "file type not allowed", 0, <<>>, <<>>))
             ELSE IF ~readOk THEN StepRaise(tree, "OSError")
             ELSE EditEntry(rel, p, ops, tree[p].text, tree, dry)

\* the positions inside the backup and _atomic_write of an entry
Writing == {"backup", "aw_mkdir", "aw_open", "aw_write", "aw_replace", "record"}

\* api_apply calls apply_patch_plan(repo_root(), plan, dry_run=d): the first
\* call, or a call that follows a preview (a dry run) of the saved plan
Call(d) ==
    /\ pc = "idle" \/ (pc = "returned" /\ dry_run /\ ~d)
    /\ calls' = calls + 1
    /\ dry_run' = d
    /\ pc' = "precheck"
    /\ fs0' = fs
    /\ log0' = apply_log
    /\ prev' = IF pc = "returned"
               THEN [valid |-> TRUE, dry_run |-> dry_run, results |-> results,
                     nodes |-> TargetNodes(fs0)]
               ELSE prev
    /\ results' = <<>>
    /\ i' = 0
    /\ run_id' = <<>>
    /\ UNCHANGED <<callVars, settings, plan, fs, apply_log, clock, git, cur, raised, stoppedAt>>

\* lines 128-129: the precondition; git is queried only when the mode is on
Precheck ==
    /\ pc = "precheck"
    /\ \E g \in GitOutcomes :
          IF settings.REQUIRE_CLEAN_GIT
          THEN /\ git' = g
               /\ IF _git_is_clean(g)
                  THEN pc' = "setup" /\ raised' = raised
                  ELSE pc' = "raised" /\ raised' = "RuntimeError"
          ELSE git' = GitNotRun /\ pc' = "setup" /\ raised' = raised
    /\ UNCHANGED <<callVars, settings, plan, fs, apply_log, clock, calls, dry_run, run_id, i,
                   results, cur, stoppedAt, fs0, log0, prev>>

\* lines 131-143: the state and backup directories, the run id, the empty list
SetupTree(tree, rid) == Mkdir(Mkdir(tree, STATE_DIR), BackupDirOf(rid))

Setup ==
    /\ pc = "setup"
    /\ run_id' = _ts(clock)
    /\ fs' = SetupTree(fs, _ts(clock))
    /\ results' = <<>>
    /\ i' = 1
    /\ git' = GitNotRun
    /\ pc' = "loop"
    /\ UNCHANGED <<callVars, settings, plan, apply_log, clock, calls, dry_run, cur, raised,
                   stoppedAt, fs0, log0, prev>>

\* lines 145-225: one entry, up to its record or to the start of its write
ProcessEntry ==
    /\ pc = "loop"
    /\ i <= Len(Files)
    /\ \E readOk \in BOOLEAN :
          LET st == EntryStep(Files[i], fs, settings.ALLOW_CREATE_FILES, dry_run, readOk)
          IN  /\ fs' = st.fs
              /\ CASE st.kind = "result" ->
                        /\ results' = Append(results, st.result)
                        /\ i' = i + 1
                        /\ UNCHANGED <<pc, cur, raised>>
                   [] st.kind = "write" ->
                        /\ cur' = st.cur
                        /\ pc' = "backup"
                        /\ UNCHANGED <<results, i, raised>>
                   [] OTHER ->
                        /\ pc' = "raised"
                        /\ raised' = st.err
                        /\ UNCHANGED <<results, i, cur>>
    /\ UNCHANGED <<callVars, settings, plan, apply_log, clock, calls, dry_run, git, run_id,
                   stoppedAt, fs0, log0, prev>>

\* _backup_file: dst = backup_dir / rel; dst.parent.mkdir; shutil.copy2(src, dst)
_backup_file(tree, rel, backup_dir) ==
    LET src == Resolve(rel)
        dst == backup_dir \o PathParts(rel)
    IN  [Mkdir(tree, Parent(dst)) EXCEPT ![dst] = tree[src]]

\* an apply that writes without the backup
BackupStep_skipped(tree, c, backup_dir) == tree

\* lines 227-228: if p.exists(): _backup_file(repo_root, rel, backup_dir)
BackupStep(tree, c, backup_dir) ==
    IF Exists(tree, c.p) THEN _backup_file(tree, c.rel, backup_dir) ELSE tree

Backup ==
    /\ pc = "backup"
    /\ \E ok \in BOOLEAN :
          IF ok \/ ~Exists(fs, cur.p)
          THEN /\ fs' = BackupStep(fs, cur, BackupDirOf(run_id))
               /\ pc' = "aw_mkdir"
               /\ raised' = raised
          ELSE /\ fs' = fs
               /\ pc' = "raised"
               /\ raised' = "OSError"
    /\ UNCHANGED <<callVars, settings, plan, apply_log, clock, calls, dry_run, git, run_id, i,
                   results, cur, stoppedAt, fs0, log0, prev>>

\* _atomic_write, line 22: path.parent.mkdir(parents=True, exist_ok=True)
AwMkdir ==
    /\ pc = "aw_mkdir"
    /\ fs' = Mkdir(fs, Parent(cur.p))
    /\ pc' = "aw_open"
    /\ UNCHANGED <<callVars, settings, plan, apply_log, clock, calls, dry_run, git, run_id, i,
                   results, cur, raised, stoppedAt, fs0, log0, prev>>

\* a write that goes straight to the target
AwTmpPath_inPlace(path) == path

\* _atomic_write, line 23: the path the new text is first written to
AwTmpPath(path) == TmpSibling(path)

\* _atomic_write, line 24, first half: write_text opens tmp and truncates it
AwOpen ==
    /\ pc = "aw_open"
    /\ \E ok \in BOOLEAN :
          IF ok
          THEN /\ fs' = [fs EXCEPT ![AwTmpPath(cur.p)] = FileN(<<>>)]
               /\ pc' = "aw_write"
               /\ raised' = raised
          ELSE /\ fs' = fs
               /\ pc' = "raised"
               /\ raised' = "OSError"
    /\ UNCHANGED <<callVars, settings, plan, apply_log, clock, calls, dry_run, git, run_id, i,
                   results, cur, stoppedAt, fs0, log0, prev>>

\* _atomic_write, line 24, second half: the text goes into tmp; the write may
\* fail after part of the text (a full disk), which leaves the part in tmp
AwWrite ==
    /\ pc = "aw_write"
    /\ \E n \in 0..Len(cur.updated) :
          /\ fs' = [fs EXCEPT ![AwTmpPath(cur.p)] = FileN(SubSeq(cur.updated, 1, n))]
          /\ IF n = Len(cur.updated)
             THEN pc' = "aw_replace" /\ raised' = raised
             ELSE pc' = "raised" /\ raised' = "OSError"
    /\ UNCHANGED <<callVars, settings, plan, apply_log, clock, calls, dry_run, git, run_id, i,
                   results, cur, stoppedAt, fs0, log0, prev>>

\* _atomic_write, line 25: tmp.replace(path), one rename
AwReplace ==
    /\ pc = "aw_replace"
    /\ fs' = [fs EXCEPT ![cur.p] = fs[AwTmpPath(cur.p)], ![AwTmpPath(cur.p)] = NoneN]
    /\ pc' = "record"
    /\ UNCHANGED <<callVars, settings, plan, apply_log, clock, calls, dry_run, git, run_id, i,
                   results, cur, raised, stoppedAt, fs0, log0, prev>>

\* lines 230-236: the record of an updated file
Record ==
    /\ pc = "record"
    /\ results' = Append(results, Result(cur.rel, "updated", "", cur.ops, cur.diff, cur.updated))
    /\ i' = i + 1
    /\ cur' = NoCur
    /\ pc' = "loop"
    /\ UNCHANGED <<callVars, settings, plan, fs, apply_log, clock, calls, dry_run, git, run_id,
                   raised, stoppedAt, fs0, log0, prev>>

\* lines 238-246: the log is written over the previous one and returned
Finish ==
    /\ pc = "loop"
    /\ i > Len(Files)
    /\ apply_log' = [exists |-> TRUE, run_id |-> run_id, dry_run |-> dry_run,
                     backup_dir |-> BackupDirOf(run_id), results |-> results]
    /\ fs' = [fs EXCEPT ![LogPath] = FileN(<<>>)]
    /\ pc' = "returned"
    /\ UNCHANGED <<callVars, settings, plan, clock, calls, dry_run, git, run_id, i, results, cur,
                   raised, stoppedAt, fs0, log0, prev>>

\* the process is killed while an entry is being backed up and written
Stop ==
    /\ pc \in Writing
    /\ stoppedAt' = pc
    /\ pc' = "stopped"
    /\ UNCHANGED <<callVars, settings, plan, fs, apply_log, clock, calls, dry_run, git, run_id, i,
                   results, cur, raised, fs0, log0, prev>>

\* time passes between two calls
Tick ==
    /\ pc = "returned" /\ dry_run
    /\ clock < MaxClock
    /\ clock' = clock + 1
    /\ UNCHANGED <<callVars, settings, plan, fs, apply_log, pc, calls, dry_run, git, run_id, i,
                   results, cur, raised, stoppedAt, fs0, log0, prev>>

Next ==
    \/ \E d \in BOOLEAN : Call(d)
    \/ Precheck
    \/ Setup
    \/ ProcessEntry
    \/ Backup
    \/ AwMkdir
    \/ AwOpen
    \/ AwWrite
    \/ AwReplace
    \/ Record
    \/ Finish
    \/ Stop
    \/ Tick

Spec == Init /\ [][Next]_vars

\* the apply engine on a Windows host
InitWin == InitOn("nt")
SpecWin == InitWin /\ [][Next]_vars

\* api_apply is called again after a real apply has returned, up to MaxCalls
\* calls in all; the wall clock is at the same second or a later one
CallAgain ==
    /\ pc = "returned" /\ ~dry_run
    /\ calls < MaxCalls
    /\ \E t \in clock..MaxClock : clock' = t
    /\ calls' = calls + 1
    /\ dry_run' = FALSE
    /\ pc' = "precheck"
    /\ fs0' = fs
    /\ log0' = apply_log
    /\ prev' = [valid |-> TRUE, dry_run |-> dry_run, results |-> results,
                nodes |-> TargetNodes(fs0)]
    /\ results' = <<>>
    /\ i' = 0
    /\ run_id' = <<>>
    /\ UNCHANGED <<callVars, settings, plan, fs, apply_log, git, cur, raised, stoppedAt>>

\* the apply engine with real applies that follow one another
InitTwo == InitOn("posix") /\ ~settings.REQUIRE_CLEAN_GIT
NextTwo == Next \/ CallAgain
SpecTwo == InitTwo /\ [][NextTwo]_vars

\* ============================================================== repo_diff.py
\* Strings of this part (paths, goal, file texts) are sequences of
\* one-character strings, so that the string operations of the code are
\* computed.

\* the characters of the model in ascending code point order (str comparison)
CharOrder == <<"\n", " ", "\"", "'", "(", ")", "-", ".", "/",
               "0", "1", "2", "3", "4", "5", "6", "7", "8", "9",
               "A", "R", "\\", "_",
               "a", "b", "c", "d", "e", "f", "g", "h", "i", "j", "k", "l", "m",
               "n", "o", "p", "q", "r", "s", "t", "u", "v", "w", "x", "y", "z">>
Ord(c) == CHOOSE k \in 1..Len(CharOrder) : CharOrder[k] = c

\* a < b for two str
RECURSIVE StrLess(_, _)
StrLess(a, b) ==
    IF b = <<>> THEN FALSE
    ELSE IF a = <<>> THEN TRUE
    ELSE IF Head(a) = Head(b) THEN StrLess(Tail(a), Tail(b))
    ELSE Ord(Head(a)) < Ord(Head(b))

\* the indices of a list, in order
Indices(list) == [k \in 1..Len(list) |-> k]

\* sorted(list of str): the element at index j goes to the place after the
\* elements that are smaller and the equal ones that come before it
SortedStr(list) ==
    LET place == [j \in 1..Len(list) |->
                    1 + Cardinality({m \in 1..Len(list) :
                            \/ StrLess(list[m], list[j])
                            \/ (list[m] = list[j] /\ m < j)})]
    IN  [k \in 1..Len(list) |-> list[CHOOSE j \in 1..Len(list) : place[j] = k]]

\* list.sort(reverse=True, key=...) and sorted(..., key=lambda x: -key): the
\* greater key first, equal keys in the order they had (both sorts are
\* stable). The elements are records with a numeric field key.
SortByKeyDesc(list) ==
    LET place == [j \in 1..Len(list) |->
                    1 + Cardinality({m \in 1..Len(list) :
                            \/ list[m].key > list[j].key
                            \/ (list[m].key = list[j].key /\ m < j)})]
    IN  [k \in 1..Len(list) |-> list[CHOOSE j \in 1..Len(list) : place[j] = k]]

\* list[:n]
Take(list, n) == SubSeq(list, 1, Min(n, Len(list)))

\* x in list
InList(x, list) == \E k \in 1..Len(list) : list[k] = x

\* text.count(item) for a one-character item
RECURSIVE CountChar(_, _)
CountChar(t, c) ==
    IF t = <<>> THEN 0
    ELSE (IF Head(t) = c THEN 1 ELSE 0) + CountChar(Tail(t), c)

\* _sha256_text: the digest of a text. SHA-256 is taken as collision free:
\* two texts have the same digest exactly when they are the same text.
_sha256_text(t) == <<"sha256", t>>
\* a missing digest (None)
NoSha == <<>>

\* One record of "files" as scan_repo builds it from a file's path and text
\* (the keys diff_maps reads).
ScanRecord(path, t) ==
    [path |-> path, sha256 |-> _sha256_text(t), lines |-> CountChar(t, LF) + 1,
     size |-> Len(t)]

\* A dict keyed by path, as the sequence of its values in insertion order.
DictKeys(d) == [k \in 1..Len(d) |-> d[k].path]
DictHas(d, p) == \E k \in 1..Len(d) : d[k].path = p
DictGet(d, p) == d[CHOOSE k \in 1..Len(d) : d[k].path = p]

\* _index: {f["path"]: f for f in repo_map.get("files", [])}: a path listed
\* twice keeps its first place and its last record
_index(files) ==
    LET first == SelectSeq(Indices(files),
                           LAMBDA j : \A m \in 1..(j - 1) : files[m].path # files[j].path)
        last(p) == CHOOSE j \in 1..Len(files) :
                      /\ files[j].path = p
                      /\ \A m \in (j + 1)..Len(files) : files[m].path # p
    IN  [k \in 1..Len(first) |-> files[last(files[first[k]].path)]]

\* Path(path).suffix: from the last dot of the last segment, unless that dot
\* starts or ends the segment
RECURSIVE LastIndexOf(_, _)
LastIndexOf(s, c) ==
    IF s = <<>> THEN 0
    ELSE IF s[Len(s)] = c THEN Len(s)
    ELSE LastIndexOf(SubSeq(s, 1, Len(s) - 1), c)

PathName(path) == SubSeq(path, LastIndexOf(path, "/") + 1, Len(path))
PathSuffix(path) ==
    LET name == PathName(path)
        k == LastIndexOf(name, ".")
    IN  IF k > 1 /\ k < Len(name) THEN SubSeq(name, k, Len(name)) ELSE <<>>

\* str.lower()
LowerChar(c) == CASE c = "A" -> "a" [] c = "R" -> "r" [] OTHER -> c
LowerStr(s) == [k \in 1..Len(s) |-> LowerChar(s[k])]

\* str.replace("\\", "/")
SlashNorm(s) == [k \in 1..Len(s) |-> IF s[k] = "\\" THEN "/" ELSE s[k]]

\* _ext
_ext(path) ==
    LET e == LowerStr(PathSuffix(path))
    IN  IF e # <<>> THEN e ELSE <<"(", "n", "o", "n", "e", ")">>

\* the first index of c in s, 0 when there is none
RECURSIVE IndexOf(_, _)
IndexOf(s, c) ==
    IF s = <<>> THEN 0
    ELSE IF Head(s) = c THEN 1
    ELSE LET k == IndexOf(Tail(s), c) IN IF k = 0 THEN 0 ELSE k + 1

\* p.split("/", 1)[0] if "/" in p else "."
TopDir(path) ==
    LET p == SlashNorm(path)
        k == IndexOf(p, "/")
    IN  IF k > 0 THEN SubSeq(p, 1, k - 1) ELSE <<".">>

\* Counter(items).most_common(k): the counts in descending order, equal
\* counts in the order the items were first met
CounterOf(items) ==
    LET first == SelectSeq(Indices(items),
                           LAMBDA j : \A m \in 1..(j - 1) : items[m] # items[j])
    IN  [k \in 1..Len(first) |->
            [item |-> items[first[k]],
             key |-> Cardinality({m \in 1..Len(items) : items[m] = items[first[k]]})]]
MostCommon(items, k) == Take(SortByKeyDesc(CounterOf(items)), k)

\* _top_dirs(paths, k)
_top_dirs(paths, k) == MostCommon([j \in 1..Len(paths) |-> TopDir(paths[j])], k)

\* renames[:50]
RenameCap == 50

\* a pairing that matches no digest
_rename_hints_none(added, removed, before_index, after_index) == <<>>

\* _rename_hints: for each added path in order, one hint per removed path (in
\* order) whose digest is the added path's; at most RenameCap hints are kept
_rename_hints(added, removed, before_index, after_index) ==
    LET sha_removed == [k \in 1..Len(removed) |-> DictGet(before_index, removed[k]).sha256]
        sha_added == [n \in 1..Len(added) |-> DictGet(after_index, added[n]).sha256]
        \* pair number q: added path n(q) with removed path k(q), the added
        \* paths in the outer loop, removed_by_sha[sha] in the inner one
        n(q) == ((q - 1) \div Len(removed)) + 1
        k(q) == ((q - 1) % Len(removed)) + 1
        pairs == [q \in 1..(Len(added) * Len(removed)) |-> q]
        matching == SelectSeq(pairs, LAMBDA q : /\ sha_removed[k(q)] # NoSha
                                                /\ sha_added[n(q)] # NoSha
                                                /\ sha_removed[k(q)] = sha_added[n(q)])
        renames == [j \in 1..Len(matching) |->
                       [from |-> removed[k(matching[j])], to |-> added[n(matching[j])],
                        sha256 |-> sha_added[n(matching[j])]]]
    IN  Take(renames, RenameCap)

\* a list of added paths that forgets to leave out the paths of the first snapshot
DmAdded_all(b, a) == SortedStr(DictKeys(a))

\* added = sorted([p for p in a if p not in b])
DmAdded(b, a) == SortedStr(SelectSeq(DictKeys(a), LAMBDA p : ~DictHas(b, p)))

\* a diff that reports no path as removed
DmRemoved_none(b, a) == <<>>

\* removed = sorted([p for p in b if p not in a])
DmRemoved(b, a) == SortedStr(SelectSeq(DictKeys(b), LAMBDA p : ~DictHas(a, p)))

\* a list of modified paths that forgets to compare the digests
DmModified_anyCommon(b, a) == SortedStr(SelectSeq(DictKeys(a), LAMBDA p : DictHas(b, p)))

\* modified = sorted([p for p in a if p in b and a[p].sha256 != b[p].sha256])
DmModified(b, a) ==
    SortedStr(SelectSeq(DictKeys(a),
                        LAMBDA p : DictHas(b, p)
                                   /\ DictGet(a, p).sha256 # DictGet(b, p).sha256))

\* abs(x)
Abs(x) == IF x < 0 THEN -x ELSE x

\* magnitudes_sorted[:15]
TopChangedCap == 15

\* diff_maps(before, after)
diff_maps(before, after) ==
    LET b == _index(before.files)
        a == _index(after.files)
        added == DmAdded(b, a)
        removed == DmRemoved(b, a)
        modified == DmModified(b, a)
        changed_all == added \o removed \o modified
        magnitudes ==
            [k \in 1..Len(modified) |->
                [path |-> modified[k],
                 key |-> Abs(DictGet(a, modified[k]).lines - DictGet(b, modified[k]).lines)]]
    IN  [repo_root |-> after.repo_root,
         generated_at |-> after.generated_at,
         added |-> added, removed |-> removed, modified |-> modified,
         counts |-> [added |-> Len(added), removed |-> Len(removed),
                     modified |-> Len(modified)],
         summary |->
            [top_dirs |-> _top_dirs(changed_all, 10),
             top_exts |-> MostCommon([k \in 1..Len(changed_all) |-> _ext(changed_all[k])], 10),
             renames |-> _rename_hints(added, removed, b, a),
             top_changed_files |-> Take(SortByKeyDesc(magnitudes), TopChangedCap)]]

\* ----------------------------------------------------- inputs of diff_maps
\* number of different file contents in the enumerated snapshots
MaxTexts == 2

\* the paths of the enumerated snapshots, in ascending order
DiffPathList == <<<<"a", ".", "p", "y">>, <<"b", ".", "p", "y">>, <<"l", "i", "b", "/", "c", ".", "p", "y">>>>
\* content number k: k lines
DiffText(k) == [j \in 1..(2 * k) |-> IF j % 2 = 1 THEN "a" ELSE LF]

Snapshot(files, at) == [repo_root |-> "root", generated_at |-> at, files |-> files]

\* the snapshot scan_repo makes of a tree in which path number k has content
\* number c[k], or is absent when c[k] = 0 (files.sort by path)
SnapshotOf(c, at) ==
    LET present == SelectSeq(<<1, 2, 3>>, LAMBDA k : c[k] # 0)
    IN  Snapshot([j \in 1..Len(present) |->
                     ScanRecord(DiffPathList[present[j]], DiffText(c[present[j]]))], at)

SmallTrees == [1..Len(DiffPathList) -> 0..MaxTexts]

\* a tree of RenameCap + 1 files under old/, and the tree after all of them
\* were moved to new/
ManyMoved == RenameCap + 1
Digits == <<"0", "1", "2", "3", "4", "5", "6", "7", "8", "9">>
TwoDigits(n) == <<Digits[(n \div 10) + 1], Digits[(n % 10) + 1]>>
OldPath(n) == <<"o", "l", "d", "/", "m">> \o TwoDigits(n) \o <<".", "p", "y">>
NewPath(n) == <<"n", "e", "w", "/", "m">> \o TwoDigits(n) \o <<".", "p", "y">>
MovedText(n) == TwoDigits(n) \o <<LF>>
BigBefore == Snapshot([n \in 1..ManyMoved |-> ScanRecord(OldPath(n), MovedText(n))], 1)
BigAfter == Snapshot([n \in 1..ManyMoved |-> ScanRecord(NewPath(n), MovedText(n))], 2)

NoDiff == [added |-> <<>>]

\* the pairs of snapshots diff_maps is called with: the previous scan and
\* the new one
DiffInputs ==
    {[pc |-> "called", before |-> SnapshotOf(c, 1), after |-> SnapshotOf(d, 2), out |-> NoDiff] :
        c \in SmallTrees, d \in SmallTrees}
    \cup {[pc |-> "called", before |-> SnapshotOf(c, 1), after |-> SnapshotOf(c, 1), out |-> NoDiff] :
        c \in SmallTrees}
    \cup {[pc |-> "called", before |-> BigBefore, after |-> BigAfter, out |-> NoDiff],
          [pc |-> "called", before |-> BigBefore, after |-> BigBefore, out |-> NoDiff]}

\* the apply engine at rest, for the specifications of the other parts
ApplyIdle ==
    /\ settings = [REQUIRE_CLEAN_GIT |-> FALSE, ALLOW_CREATE_FILES |-> FALSE, HOST |-> "posix"]
    /\ plan = [isList |-> TRUE, files |-> <<>>]
    /\ fs = InitTree
    /\ apply_log = NoLog
    /\ clock = 1
    /\ pc = "idle"
    /\ calls = 0
    /\ dry_run = FALSE
    /\ git = GitNotRun
    /\ run_id = <<>>
    /\ i = 0
    /\ results = <<>>
    /\ cur = NoCur
    /\ raised = ""
    /\ stoppedAt = ""
    /\ fs0 = InitTree
    /\ log0 = NoLog
    /\ prev = NoPrev

InitDiff ==
    /\ ApplyIdle
    /\ scanCall = NoCall
    /\ planCall = NoCall
    /\ diffCall \in DiffInputs
    /\ ctxCall = NoCall
    /\ opCall = NoCall

\* the call returns its result
DiffMaps ==
    /\ diffCall.pc = "called"
    /\ diffCall' = [diffCall EXCEPT !.pc = "returned",
                                    !.out = diff_maps(diffCall.before, diffCall.after)]
    /\ UNCHANGED <<applyVars, ctxCall, opCall, scanCall, planCall>>

NextDiff == DiffMaps

SpecDiff == InitDiff /\ [][NextDiff]_vars

\* ======================================================= context_builder.py
\* Scores are kept in tenths (14.0 is 140), which is exact where the code adds
\* floats.

LowerLetters == {"a", "b", "c", "d", "e", "f", "g", "h", "i", "j", "k", "l", "m",
                 "n", "o", "p", "q", "r", "s", "t", "u", "v", "w", "x", "y", "z"}
DigitChars == {"0", "1", "2", "3", "4", "5", "6", "7", "8", "9"}
\* \s, [a-z0-9_./-], [a-z0-9_] and [a-zA-Z0-9_\.] over the characters of the model
SpaceChars == {" ", LF}
GoalChars == LowerLetters \cup DigitChars \cup {"_", ".", "/", "-"}
IdentChars == LowerLetters \cup DigitChars \cup {"_"}
ModuleChars == LowerLetters \cup DigitChars \cup {"A", "R", "_", "."}

_STOP == {<<"a">>, <<"a", "n">>, <<"t", "h", "e">>, <<"t", "o">>, <<"o", "f">>, <<"a", "n", "d">>, <<"o", "r">>, <<"f", "o", "r">>, <<"i", "n">>,
          <<"o", "n">>, <<"w", "i", "t", "h">>, <<"b", "y">>, <<"a", "s">>, <<"i", "s">>, <<"a", "r", "e">>, <<"w", "a", "s">>, <<"w", "e", "r", "e">>,
          <<"b", "e">>, <<"b", "e", "e", "n">>, <<"i", "t">>, <<"t", "h", "i", "s">>, <<"t", "h", "a", "t">>, <<"t", "h", "e", "s", "e">>, <<"t", "h", "o", "s", "e">>,
          <<"f", "r", "o", "m">>, <<"a", "t">>, <<"i", "n", "t", "o">>, <<"o", "v", "e", "r">>, <<"u", "n", "d", "e", "r">>, <<"t", "h", "e", "n">>, <<"t", "h", "a", "n">>,
          <<"b", "u", "t">>, <<"i", "f">>, <<"e", "l", "s", "e">>, <<"a", "d", "d">>, <<"m", "a", "k", "e">>, <<"u", "p", "d", "a", "t", "e">>, <<"f", "i", "x">>,
          <<"i", "m", "p", "r", "o", "v", "e">>, <<"r", "e", "f", "a", "c", "t", "o", "r">>, <<"c", "h", "a", "n", "g", "e">>, <<"c", "r", "e", "a", "t", "e">>, <<"b", "u", "i", "l", "d">>,
          <<"p", "l", "e", "a", "s", "e">>, <<"n", "e", "e", "d">>, <<"w", "a", "n", "t">>, <<"l", "i", "k", "e">>, <<"s", "i", "m", "i", "l", "a", "r">>, <<"r", "e", "p", "l", "i", "t">>,
          <<"o", "f", "f", "l", "i", "n", "e">>}

_ENTRYPOINT_HINTS == {<<"m", "a", "i", "n", ".", "p", "y">>, <<"a", "p", "p", ".", "p", "y">>, <<"s", "e", "r", "v", "e", "r", ".", "p", "y">>, <<"w", "e", "b", "_", "a", "p", "p", ".", "p", "y">>, <<"a", "p", "i", ".", "p", "y">>,
                      <<"r", "o", "u", "t", "e", "s", ".", "p", "y">>, <<"r", "o", "u", "t", "e", "r", ".", "p", "y">>, <<"w", "s", "g", "i", ".", "p", "y">>, <<"a", "s", "g", "i", ".", "p", "y">>, <<"m", "a", "n", "a", "g", "e", ".", "p", "y">>,
                      <<"i", "n", "d", "e", "x", ".", "j", "s">>, <<"i", "n", "d", "e", "x", ".", "t", "s">>, <<"a", "p", "p", ".", "j", "s">>, <<"a", "p", "p", ".", "t", "s">>, <<"s", "e", "r", "v", "e", "r", ".", "j", "s">>,
                      <<"s", "e", "r", "v", "e", "r", ".", "t", "s">>, <<"p", "y", "p", "r", "o", "j", "e", "c", "t", ".", "t", "o", "m", "l">>, <<"r", "e", "q", "u", "i", "r", "e", "m", "e", "n", "t", "s", ".", "t", "x", "t">>,
                      <<"p", "a", "c", "k", "a", "g", "e", ".", "j", "s", "o", "n">>, <<"R", "E", "A", "D", "M", "E", ".", "m", "d">>, <<".", "e", "n", "v">>, <<"d", "o", "c", "k", "e", "r", "f", "i", "l", "e">>,
                      <<"d", "o", "c", "k", "e", "r", "-", "c", "o", "m", "p", "o", "s", "e">>, <<"c", "o", "m", "p", "o", "s", "e">>}

\* a list: choose_files_for_context goes through the hints in this order
_RUNFILES_HINTS == <<<<"r", "e", "q", "u", "i", "r", "e", "m", "e", "n", "t", "s", ".", "t", "x", "t">>, <<"p", "y", "p", "r", "o", "j", "e", "c", "t", ".", "t", "o", "m", "l">>, <<"s", "e", "t", "u", "p", ".", "p", "y">>, <<"p", "i", "p", "f", "i", "l", "e">>,
                     <<"p", "o", "e", "t", "r", "y", ".", "l", "o", "c", "k">>, <<"p", "a", "c", "k", "a", "g", "e", ".", "j", "s", "o", "n">>, <<"p", "n", "p", "m", "-", "l", "o", "c", "k">>, <<"y", "a", "r", "n", ".", "l", "o", "c", "k">>,
                     <<"d", "o", "c", "k", "e", "r", "f", "i", "l", "e">>, <<"d", "o", "c", "k", "e", "r", "-", "c", "o", "m", "p", "o", "s", "e">>, <<"c", "o", "m", "p", "o", "s", "e">>, <<".", "e", "n", "v">>,
                     <<"r", "e", "a", "d", "m", "e", ".", "m", "d">>>>

_CORE_DIR_BONUS == {<<"/", "s", "r", "c", "/">>, <<"/", "a", "p", "p", "/">>, <<"/", "a", "p", "i", "/">>, <<"/", "s", "e", "r", "v", "e", "r", "/">>, <<"/", "b", "a", "c", "k", "e", "n", "d", "/">>,
                    <<"/", "f", "r", "o", "n", "t", "e", "n", "d", "/">>, <<"/", "w", "e", "b", "/">>}
_PENALTY_DIRS == {<<"/", "t", "e", "s", "t", "s", "/">>, <<"/", "t", "e", "s", "t", "/">>, <<"/", "m", "i", "g", "r", "a", "t", "i", "o", "n", "s", "/">>, <<"/", "d", "i", "s", "t", "/">>, <<"/", "b", "u", "i", "l", "d", "/">>,
                  <<"/", ".", "n", "e", "x", "t", "/">>, <<"/", "n", "o", "d", "e", "_", "m", "o", "d", "u", "l", "e", "s", "/">>}

\* re.findall(r"[class]+", s): the maximal runs of characters of the class
RECURSIVE RunsFrom(_, _, _)
RunsFrom(s, class, run) ==
    IF s = <<>> THEN (IF run = <<>> THEN <<>> ELSE <<run>>)
    ELSE IF Head(s) \in class THEN RunsFrom(Tail(s), class, Append(run, Head(s)))
    ELSE (IF run = <<>> THEN <<>> ELSE <<run>>) \o RunsFrom(Tail(s), class, <<>>)

\* the de-duplication loops (seen = set(); out = []): first occurrences, in order
Dedup(list) ==
    LET first == SelectSeq(Indices(list),
                           LAMBDA j : \A m \in 1..(j - 1) : list[m] # list[j])
    IN  [k \in 1..Len(first) |-> list[first[k]]]

_tokenize_goal(goal) ==
    Dedup(SelectSeq(RunsFrom(LowerStr(goal), GoalChars, <<>>),
                    LAMBDA t : Len(t) >= 3 /\ t \notin _STOP))

\* _file_meta_index: {f.get("path"): f for f in files if f.get("path")}
_file_meta_index(repo_map) ==
    _index(SelectSeq(repo_map.files, LAMBDA f : f.path # <<>>))

\* meta.get(rel, {}).get(key, default)
MetaGet(meta, rel, key, default) ==
    IF DictHas(meta, rel) THEN DictGet(meta, rel)[key] ELSE default

\* 10**9, the default where a record has no "lines" or "size"
NoMetric == 1000000000

\* _suffix and _is_text_allowed
_suffix(rel) == LowerStr(PathSuffix(rel))
TextExtChars == {<<".", "p", "y">>, <<".", "j", "s">>, <<".", "j", "s", "x">>, <<".", "t", "s">>, <<".", "t", "s", "x">>, <<".", "j", "s", "o", "n">>, <<".", "y", "m", "l">>,
                 <<".", "y", "a", "m", "l">>, <<".", "m", "d">>, <<".", "t", "x", "t">>, <<".", "h", "t", "m", "l">>, <<".", "c", "s", "s">>, <<".", "t", "o", "m", "l">>, <<".", "i", "n", "i">>}
_is_text_allowed(rel) == _suffix(rel) \in TextExtChars

_score_path(rel, goal_tokens) ==
    LET p == LowerStr(rel)
    IN  (IF \E hint \in _ENTRYPOINT_HINTS : Contains(p, hint) THEN 140 ELSE 0)
        + (IF \E k \in 1..Len(_RUNFILES_HINTS) : Contains(p, _RUNFILES_HINTS[k]) THEN 80 ELSE 0)
        + (IF \E seg \in _CORE_DIR_BONUS : Contains(p, seg) THEN 30 ELSE 0)
        - (IF \E seg \in _PENALTY_DIRS : Contains(p, seg) THEN 40 ELSE 0)
        + 65 * Cardinality({k \in 1..Len(goal_tokens) : Contains(p, goal_tokens[k])})
        + (IF ~InList("/", p) THEN 12 ELSE 0)

\* the matches of re.findall(rf"(?<![a-z0-9_]){t}(?![a-z0-9_])", lo): the
\* occurrences of t with no identifier character on either side, left to
\* right without overlap; and lo.count(t)
RECURSIVE CountFrom(_, _, _, _)
CountFrom(lo, t, k, bounded) ==
    IF k + Len(t) - 1 > Len(lo) THEN 0
    ELSE IF /\ SubSeq(lo, k, k + Len(t) - 1) = t
            /\ bounded => /\ (k = 1 \/ lo[k - 1] \notin IdentChars)
                          /\ (k + Len(t) > Len(lo) \/ lo[k + Len(t)] \notin IdentChars)
         THEN 1 + CountFrom(lo, t, k + Len(t), bounded)
         ELSE CountFrom(lo, t, k + 1, bounded)

_score_content(text, goal_tokens) ==
    LET lo == LowerStr(text)
        part(t) ==
            LET hits == CountFrom(lo, t, 1, TRUE)
                sub == CountFrom(lo, t, 1, FALSE)
            IN  IF hits > 0 THEN Min(10, hits) * 14 ELSE Min(6, sub) * 6
        sum[n \in 0..Len(goal_tokens)] ==
            IF n = 0 THEN 0 ELSE sum[n - 1] + part(goal_tokens[n])
    IN  IF text = <<>> \/ goal_tokens = <<>> THEN 0 ELSE sum[Len(goal_tokens)]

_prefer_small(meta, rel) ==
    LET lines == MetaGet(meta, rel, "lines", NoMetric)
        size == MetaGet(meta, rel, "size", NoMetric)
    IN  (IF lines <= 250 THEN 16 ELSE IF lines <= 600 THEN 8
         ELSE IF lines >= 2000 THEN -22 ELSE 0)
        + (IF size <= 60000 THEN 11 ELSE IF size >= 500000 THEN -22 ELSE 0)

\* lows = {p.lower(): p for p in all_files}: one item per lowercased path, at
\* the place of its first path and with its last path as the value
LowsItems(all_files) ==
    LET first == SelectSeq(Indices(all_files),
                    LAMBDA j : \A m \in 1..(j - 1) :
                                  LowerStr(all_files[m]) # LowerStr(all_files[j]))
        last(lp) == CHOOSE j \in 1..Len(all_files) :
                       /\ LowerStr(all_files[j]) = lp
                       /\ \A m \in (j + 1)..Len(all_files) : LowerStr(all_files[m]) # lp
    IN  [k \in 1..Len(first) |->
            [lp |-> LowerStr(all_files[first[k]]),
             orig |-> all_files[last(LowerStr(all_files[first[k]]))]]]

\* the names, and the directories, _detect_entrypoints looks for; out[:6]
EntrypointNames == <<<<"w", "e", "b", "_", "a", "p", "p", ".", "p", "y">>, <<"a", "p", "p", ".", "p", "y">>, <<"m", "a", "i", "n", ".", "p", "y">>, <<"s", "e", "r", "v", "e", "r", ".", "p", "y">>>>
EntrypointDirs == {<<"/", "a", "p", "p", "/">>, <<"/", "s", "r", "c", "/">>, <<"/", "s", "e", "r", "v", "e", "r", "/">>, <<"/", "a", "p", "i", "/">>}
EntrypointCap == 6

_detect_entrypoints(all_files) ==
    LET lows == LowsItems(all_files)
        named == SelectSeq(EntrypointNames,
                           LAMBDA name : \E k \in 1..Len(lows) : lows[k].lp = name)
        byName == [k \in 1..Len(named) |->
                      lows[CHOOSE j \in 1..Len(lows) : lows[j].lp = named[k]].orig]
        byDir == SelectSeq(all_files,
                    LAMBDA p : /\ EndsWith(LowerStr(p), <<"a", "p", "p", ".", "p", "y">>)
                               /\ \E seg \in EntrypointDirs : Contains(LowerStr(p), seg))
    IN  Take(Dedup(byName \o byDir), EntrypointCap)

\* runfiles2[:6]
RunfilesCap == 6

\* the run/config files: for each hint in order, the paths whose lowercased
\* form holds it, in the order of lows; then first occurrences, at most six
RunFiles(all_files) ==
    LET lows == LowsItems(all_files)
        h(q) == ((q - 1) \div Len(lows)) + 1
        j(q) == ((q - 1) % Len(lows)) + 1
        hits == SelectSeq([q \in 1..(Len(_RUNFILES_HINTS) * Len(lows)) |-> q],
                          LAMBDA q : Contains(lows[j(q)].lp, _RUNFILES_HINTS[h(q)]))
    IN  Take(Dedup([k \in 1..Len(hits) |-> lows[j(hits[k])].orig]), RunfilesCap)

\* all_files: the paths of the snapshot that are str and have an allowed suffix
AllFilesOf(repo_map) ==
    LET withPath == SelectSeq(repo_map.files, LAMBDA f : f.path # <<>>)
    IN  SelectSeq([k \in 1..Len(withPath) |-> SlashNorm(withPath[k].path)], _is_text_allowed)

\* changed: the modified, then the added paths of the diff that are in all_files
ChangedOf(diff, all_files) ==
    SelectSeq([k \in 1..Len(diff.modified \o diff.added) |->
                  SlashNorm((diff.modified \o diff.added)[k])],
              LAMBDA p : InList(p, all_files))

\* add_many(items) on merged (seen is the set of the elements of merged): it
\* returns as soon as merged has max_files elements, after adding one
RECURSIVE AddMany(_, _, _)
AddMany(merged, items, max_files) ==
    IF items = <<>> THEN merged
    ELSE IF InList(Head(items), merged) THEN AddMany(merged, Tail(items), max_files)
    ELSE IF Len(merged) + 1 >= max_files THEN Append(merged, Head(items))
    ELSE AddMany(Append(merged, Head(items)), Tail(items), max_files)

\* a merge that never cuts the list
MergeCut_none(merged, max_files) == merged

\* return merged[: SETTINGS.MAX_FILES_TO_SHOW]
MergeCut(merged, max_files) == Take(merged, max_files)

\* scored[:120]
TopForContent == 120

\* the list the score ranking gives (step 5 of choose_files_for_context)
RankedByScore(all_files, meta, goal_tokens, changed, entrypoints, runfiles) ==
    LET base(rel) == _score_path(rel, goal_tokens) + _prefer_small(meta, rel)
        scored == SortByKeyDesc([k \in 1..Len(all_files) |->
                                    [key |-> base(all_files[k]), rel |-> all_files[k]]])
        top_for_content == Take(scored, TopForContent)
        rescored ==
            SortByKeyDesc([k \in 1..Len(top_for_content) |->
                LET rel == top_for_content[k].rel
                IN  [key |-> base(rel)
                             + (IF InList(rel, changed) THEN 150 ELSE 0)
                             + (IF InList(rel, entrypoints) THEN 80 ELSE 0)
                             + (IF InList(rel, runfiles) THEN 60 ELSE 0),
                     rel |-> rel]])
    IN  [k \in 1..Len(rescored) |-> rescored[k].rel]

choose_files_for_context(repo_map, diff, goal, max_files) ==
    LET goal_tokens == _tokenize_goal(goal)
        meta == _file_meta_index(repo_map)
        all_files == AllFilesOf(repo_map)
        changed == ChangedOf(diff, all_files)
        entrypoints == _detect_entrypoints(all_files)
        runfiles == RunFiles(all_files)
        ranked == RankedByScore(all_files, meta, goal_tokens, changed, entrypoints, runfiles)
        merged == AddMany(AddMany(AddMany(AddMany(<<>>, changed, max_files),
                                          entrypoints, max_files),
                                  runfiles, max_files),
                          ranked, max_files)
    IN  MergeCut(merged, max_files)

\* -------------------------------------------------- imports and neighbours
\* the first position from k on whose character is not in the class
\* (Len(t) + 1 when the run goes to the end)
RECURSIVE RunEnd(_, _, _)
RunEnd(t, k, class) ==
    IF k > Len(t) \/ t[k] \notin class THEN k ELSE RunEnd(t, k + 1, class)

\* the literal lit stands at position k of t
LitAt(t, k, lit) == k + Len(lit) - 1 <= Len(t) /\ SubSeq(t, k, k + Len(lit) - 1) = lit

\* ^ under re.MULTILINE
AtLineStart(t, k) == k = 1 \/ t[k - 1] = LF

NoMatch == [ok |-> FALSE, group |-> <<>>, end |-> 0]
Match(group, end) == [ok |-> TRUE, group |-> group, end |-> end]

QuoteChars == {"'", "\""}
\* [^'"] over the characters of the model
NotQuoteChars == {CharOrder[k] : k \in 1..Len(CharOrder)} \ QuoteChars

\* _RE_PY_FROM at position k: ^\s*from\s+([a-zA-Z0-9_\.]+)\s+import\s+
PyFromAt(t, k) ==
    LET p1 == RunEnd(t, k, SpaceChars)
        p2 == p1 + 4
        p3 == RunEnd(t, p2, SpaceChars)
        p4 == RunEnd(t, p3, ModuleChars)
        p5 == RunEnd(t, p4, SpaceChars)
        p6 == p5 + 6
        p7 == RunEnd(t, p6, SpaceChars)
    IN  IF /\ AtLineStart(t, k) /\ LitAt(t, p1, <<"f", "r", "o", "m">>) /\ p3 > p2 /\ p4 > p3 /\ p5 > p4
           /\ LitAt(t, p5, <<"i", "m", "p", "o", "r", "t">>) /\ p7 > p6
        THEN Match(SubSeq(t, p3, p4 - 1), p7)
        ELSE NoMatch

\* _RE_PY_IMPORT at position k: ^\s*import\s+([a-zA-Z0-9_\.]+)
PyImportAt(t, k) ==
    LET p1 == RunEnd(t, k, SpaceChars)
        p2 == p1 + 6
        p3 == RunEnd(t, p2, SpaceChars)
        p4 == RunEnd(t, p3, ModuleChars)
    IN  IF AtLineStart(t, k) /\ LitAt(t, p1, <<"i", "m", "p", "o", "r", "t">>) /\ p3 > p2 /\ p4 > p3
        THEN Match(SubSeq(t, p3, p4 - 1), p4)
        ELSE NoMatch

\* ['"]([^'"]+)['"] at position k
QuotedAt(t, k) ==
    LET q == RunEnd(t, k + 1, NotQuoteChars)
    IN  IF k <= Len(t) /\ t[k] \in QuoteChars /\ q > k + 1 /\ q <= Len(t)
        THEN Match(SubSeq(t, k + 1, q - 1), q + 1)
        ELSE NoMatch

\* \s+from\s+['"]([^'"]+)['"] at position k
JsFromAt(t, k) ==
    LET r1 == RunEnd(t, k, SpaceChars)
        r2 == r1 + 4
        r3 == RunEnd(t, r2, SpaceChars)
    IN  IF r1 > k /\ LitAt(t, r1, <<"f", "r", "o", "m">>) /\ r3 > r2 THEN QuotedAt(t, r3) ELSE NoMatch

\* _RE_JS_IMPORT at position k: ^\s*import\s+.*?\s+from\s+['"]([^'"]+)['"]
\* The first \s+ is greedy (it ends at a, tried from the longest), .*? is
\* lazy (it ends at j, tried from the shortest) and matches no newline.
JsImportAt(t, k) ==
    LET p1 == RunEnd(t, k, SpaceChars)
        p2 == p1 + 6
        p3 == RunEnd(t, p2, SpaceChars)
        lazy(a) == {j \in a..(Len(t) + 1) :
                       /\ \A m \in a..(j - 1) : t[m] # LF
                       /\ JsFromAt(t, j).ok}
        as == {a \in (p2 + 1)..p3 : lazy(a) # {}}
        a0 == CHOOSE a \in as : \A b \in as : b <= a
        j0 == CHOOSE j \in lazy(a0) : \A m \in lazy(a0) : j <= m
    IN  IF AtLineStart(t, k) /\ LitAt(t, p1, <<"i", "m", "p", "o", "r", "t">>) /\ p3 > p2 /\ as # {}
        THEN JsFromAt(t, j0)
        ELSE NoMatch

\* _RE_JS_REQ at position k: require\(\s*['"]([^'"]+)['"]\s*\)
JsRequireAt(t, k) ==
    LET p1 == k + 8
        q == QuotedAt(t, RunEnd(t, p1, SpaceChars))
        p2 == RunEnd(t, q.end, SpaceChars)
    IN  IF LitAt(t, k, <<"r", "e", "q", "u", "i", "r", "e", "(">>) /\ q.ok /\ p2 <= Len(t) /\ t[p2] = ")"
        THEN Match(q.group, p2 + 1)
        ELSE NoMatch

MatchAt(re, t, k) ==
    CASE re = "_RE_PY_FROM" -> PyFromAt(t, k)
      [] re = "_RE_PY_IMPORT" -> PyImportAt(t, k)
      [] re = "_RE_JS_IMPORT" -> JsImportAt(t, k)
      [] re = "_RE_JS_REQ" -> JsRequireAt(t, k)

\* re.findall: the groups of the matches found from left to right, each
\* search starting where the match before ended
RECURSIVE FindAllFrom(_, _, _)
FindAllFrom(re, t, k) ==
    IF k > Len(t) THEN <<>>
    ELSE LET m == MatchAt(re, t, k)
         IN  IF m.ok THEN <<m.group>> \o FindAllFrom(re, t, m.end)
             ELSE FindAllFrom(re, t, k + 1)
FindAll(re, t) == FindAllFrom(re, t, 1)

\* str.strip() and str.lstrip(".")
RECURSIVE Strip(_)
Strip(s) ==
    IF s = <<>> THEN s
    ELSE IF Head(s) \in SpaceChars THEN Strip(Tail(s))
    ELSE IF s[Len(s)] \in SpaceChars THEN Strip(SubSeq(s, 1, Len(s) - 1))
    ELSE s
LStripDots(s) == SubSeq(s, RunEnd(s, 1, {"."}), Len(s))

\* sep.join(segments)
RECURSIVE JoinWith(_, _)
JoinWith(segments, sep) ==
    IF segments = <<>> THEN <<>>
    ELSE IF Len(segments) = 1 THEN segments[1]
    ELSE segments[1] \o sep \o JoinWith(Tail(segments), sep)

_resolve_python_module_to_path(module, all_files) ==
    LET mod == LStripDots(Strip(module))
        \* "/".join(mod.split("."))
        joined == [k \in 1..Len(mod) |-> IF mod[k] = "." THEN "/" ELSE mod[k]]
        candidates == <<joined \o <<".", "p", "y">>, joined \o <<"/", "_", "_", "i", "n", "i", "t", "_", "_", ".", "p", "y">>>>
    IN  IF mod = <<>> THEN <<>>
        ELSE SelectSeq(candidates, LAMBDA c : InList(c, all_files))

\* the segments of a path as pathlib keeps them: no empty and no "." segment
Segments(s) ==
    SelectSeq(RunsFrom(s, {CharOrder[k] : k \in 1..Len(CharOrder)} \ {"/"}, <<>>),
              LAMBDA seg : seg # <<".">>)

\* the suffixes and index files _resolve_js_import_to_paths tries, in order
JsTails == <<<<".", "t", "s">>, <<".", "t", "s", "x">>, <<".", "j", "s">>, <<".", "j", "s", "x">>, <<".", "j", "s", "o", "n">>, <<"/", "i", "n", "d", "e", "x", ".", "t", "s">>,
             <<"/", "i", "n", "d", "e", "x", ".", "t", "s", "x">>, <<"/", "i", "n", "d", "e", "x", ".", "j", "s">>, <<"/", "i", "n", "d", "e", "x", ".", "j", "s", "x">>>>

_resolve_js_import_to_paths(spec, rel_from, all_files) ==
    LET s == Strip(spec)
        \* str(Path(rel_from).parent), then (Path(base_dir) / s).as_posix()
        segs == Segments(SubSeq(rel_from, 1, LastIndexOf(rel_from, "/"))) \o Segments(s)
        raw == IF segs = <<>> THEN <<".">> ELSE JoinWith(segs, <<"/">>)
        cand == [k \in 1..Len(JsTails) |-> raw \o JsTails[k]]
    IN  IF ~StartsWith(s, <<".">>) THEN <<>>
        ELSE SelectSeq(cand, LAMBDA c : InList(c, all_files))

\* _read_text: the text of the file on disk, "" when it cannot be read
\* (disk is the list of the files of the tree, each with its path and text)
_read_text(disk, rel_path) ==
    IF \E k \in 1..Len(disk) : disk[k].path = rel_path
    THEN disk[CHOOSE k \in 1..Len(disk) : disk[k].path = rel_path].text
    ELSE <<>>

\* lines above which maybe_add leaves a file out
NeighborMaxLines == 2500

\* maybe_add(p): seen is the input selection and what was added so far
MaybeAdd(added, p, chosen, meta) ==
    IF InList(p, chosen) \/ InList(p, added) THEN added
    ELSE IF ~_is_text_allowed(p) THEN added
    ELSE IF MetaGet(meta, p, "lines", 0) > NeighborMaxLines THEN added
    ELSE Append(added, p)

\* for p in <resolved paths>: maybe_add(p); if len(added) >= max_new: break
RECURSIVE AddResolved(_, _, _, _, _)
AddResolved(added, ps, chosen, meta, max_new) ==
    IF ps = <<>> THEN added
    ELSE LET a2 == MaybeAdd(added, Head(ps), chosen, meta)
         IN  IF Len(a2) >= max_new THEN a2
             ELSE AddResolved(a2, Tail(ps), chosen, meta, max_new)

\* the paths the imports of one file resolve to, one list per import
ResolvedImports(disk, rel, all_files) ==
    LET txt == _read_text(disk, rel)
        suf == _suffix(rel)
        mods == FindAll("_RE_PY_FROM", txt) \o FindAll("_RE_PY_IMPORT", txt)
        specs == FindAll("_RE_JS_IMPORT", txt) \o FindAll("_RE_JS_REQ", txt)
    IN  IF suf = <<".", "p", "y">>
        THEN [k \in 1..Len(mods) |-> _resolve_python_module_to_path(mods[k], all_files)]
        ELSE IF suf \in {<<".", "j", "s">>, <<".", "j", "s", "x">>, <<".", "t", "s">>, <<".", "t", "s", "x">>}
        THEN [k \in 1..Len(specs) |-> _resolve_js_import_to_paths(specs[k], rel, all_files)]
        ELSE <<>>

\* for mod in <imports>: the inner loop over its resolved paths; the break of
\* the inner loop does not leave this loop
RECURSIVE AddImports(_, _, _, _, _)
AddImports(added, lists, chosen, meta, max_new) ==
    IF lists = <<>> THEN added
    ELSE AddImports(AddResolved(added, Head(lists), chosen, meta, max_new),
                    Tail(lists), chosen, meta, max_new)

\* for rel in chosen: if len(added) >= max_new: break; ...
RECURSIVE AddNeighbors(_, _, _, _, _, _, _)
AddNeighbors(added, rels, disk, chosen, all_files, meta, max_new) ==
    IF rels = <<>> \/ Len(added) >= max_new THEN added
    ELSE AddNeighbors(AddImports(added, ResolvedImports(disk, Head(rels), all_files),
                                 chosen, meta, max_new),
                      Tail(rels), disk, chosen, all_files, meta, max_new)

_expand_neighbors_by_imports(disk, chosen, all_files, meta, max_new) ==
    chosen \o AddNeighbors(<<>>, chosen, disk, chosen, all_files, meta, max_new)

\* -------------------------------------------------------- build_llm_context
\* size above which the content of a file is not scored
ContentMaxSize == 140000

\* lines 481-501: the chosen files are scored again, now with their content,
\* sorted by that score and cut to max_files
RescoreChosen(disk, chosen, meta, diff, goal_tokens, max_files) ==
    LET score(rel) ==
            _score_path(rel, goal_tokens) + _prefer_small(meta, rel)
            + (IF InList(rel, diff.modified) THEN 120 ELSE 0)
            + (IF InList(rel, diff.added) THEN 100 ELSE 0)
            + (IF goal_tokens # <<>> /\ MetaGet(meta, rel, "size", 0) <= ContentMaxSize
               THEN _score_content(_read_text(disk, rel), goal_tokens) ELSE 0)
        rescored == SortByKeyDesc([k \in 1..Len(chosen) |->
                                      [key |-> score(chosen[k]), rel |-> chosen[k]]])
    IN  Take([k \in 1..Len(rescored) |-> rescored[k].rel], max_files)

\* max_new of the call in build_llm_context
ExpandMaxNew == 12

\* str(n) for a number n >= 0
RECURSIVE Dec(_)
Dec(n) == IF n < 10 THEN <<Digits[n + 1]>> ELSE Dec(n \div 10) \o <<Digits[(n % 10) + 1]>>

SnipMark == <<"\n", "\n", ".", ".", ".", " ", "[", "s", "n", "i", "p", "]", " ", ".", ".", ".", "\n", "\n">>

\* _read_snippet: the whole text, or its first and last max_chars // 2
\* characters around the mark (txt[-0:] is the whole text)
_read_snippet(disk, rel_path, max_chars) ==
    LET txt == _read_text(disk, rel_path)
        half == max_chars \div 2
    IN  IF txt = <<>> THEN <<>>
        ELSE IF Len(txt) <= max_chars THEN txt
        ELSE SubSeq(txt, 1, Min(half, Len(txt))) \o SnipMark
             \o (IF half = 0 THEN txt ELSE SubSeq(txt, Max(1, Len(txt) - half + 1), Len(txt)))

\* hdr + (snippet or "") + "\n" of one selected file
ChunkOf(disk, meta, rel, max_chars) ==
    LET lines == IF DictHas(meta, rel) THEN Dec(DictGet(meta, rel).lines) ELSE <<"?">>
        size == IF DictHas(meta, rel) THEN Dec(DictGet(meta, rel).size) ELSE <<"?">>
        hdr == <<"\n", "-", "-", "-", " ", "F", "I", "L", "E", ":", " ">> \o rel \o <<" ", "(", "l", "i", "n", "e", "s", "=">> \o lines \o <<",", " ", "s", "i", "z", "e", "=">> \o size
               \o <<")", " ", "-", "-", "-", "\n">>
    IN  hdr \o _read_snippet(disk, rel, max_chars) \o <<LF>>

\* a budget test that never stops the loop
BudgetHit_never(total, chunk, budget) == FALSE

\* if total + len(chunk) > SETTINGS.MAX_TOTAL_CONTEXT_CHARS
BudgetHit(total, chunk, budget) == total + Len(chunk) > budget

\* lines 555-567: the loop over the selected files; chunks is what the loop
\* appended to parts, hit whether it appended the budget mark and stopped
RECURSIVE AddSnippets(_, _, _, _, _, _)
AddSnippets(chunks, total, rels, disk, meta, conf) ==
    IF rels = <<>> THEN [chunks |-> chunks, hit |-> 0, total |-> total]
    ELSE LET chunk == ChunkOf(disk, meta, Head(rels), conf.MAX_CHARS_PER_FILE)
         IN  IF BudgetHit(total, chunk, conf.MAX_TOTAL_CONTEXT_CHARS)
             THEN [chunks |-> chunks, hit |-> 1, total |-> total]
             ELSE AddSnippets(Append(chunks, [rel |-> Head(rels), text |-> chunk]),
                              total + Len(chunk), Tail(rels), disk, meta, conf)

\* repo file list: all_files[:300]
ShortListCap == 300

\* lines 512-569: the parts of the context text. The goal, the entry points,
\* the file list and the open files are kept as the values the text is
\* rendered from (so are the overview and str(diff), which are renderings of
\* repo_map and diff); the snippets are kept as the chunks appended.
Assembled(disk, repo_map, diff, goal, chosen, conf) ==
    LET all_files == AllFilesOf(repo_map)
        snippets == AddSnippets(<<>>, 0, chosen, disk, _file_meta_index(repo_map), conf)
    IN  [goal |-> IF Strip(goal) = <<>> THEN <<"(", "e", "m", "p", "t", "y", ")">> ELSE Strip(goal),
         entrypoints |-> _detect_entrypoints(all_files),
         short_list |-> Take(all_files, ShortListCap),
         open_files |-> chosen,
         chunks |-> snippets.chunks,
         budget_marks |-> snippets.hit,
         total |-> snippets.total]

\* ----------------------------------------------- inputs of build_llm_context
\* the largest MAX_FILES_TO_SHOW and the largest max_new of the enumerated calls
MaxShow == 3
MaxNew == 2
\* the small per-file and total character budgets of the enumerated settings
CharsLow == 4
BudgetLow == 100
\* how many files of the full tree a tree may lack
MaxLacking == 2

\* the files of the full tree, in path order
TreeFiles ==
    <<[path |-> <<"a", "p", "p", ".", "p", "y">>, text |-> <<"i", "m", "p", "o", "r", "t", " ", "c", "f", "g", "\n", "f", "r", "o", "m", " ", "l", "i", "b", ".", "u", "t", "i", "l", " ", "i", "m", "p", "o", "r", "t", " ", "x", "\n">>],
      [path |-> <<"c", "f", "g", ".", "p", "y">>, text |-> <<"x", "\n">>],
      [path |-> <<"l", "i", "b", "/", "u", "t", "i", "l", ".", "p", "y">>, text |-> <<"i", "m", "p", "o", "r", "t", " ", "c", "f", "g", "\n">>],
      [path |-> <<"r", "e", "q", "u", "i", "r", "e", "m", "e", "n", "t", "s", ".", "t", "x", "t">>, text |-> <<"a", "\n">>],
      [path |-> <<"r", "o", "u", "t", "e", "s", ".", "p", "y">>, text |-> <<"c", "f", "g", "\n">>],
      [path |-> <<"w", "e", "b", "/", "d", "o", "m", ".", "j", "s">>, text |-> <<"a", "\n">>],
      [path |-> <<"w", "e", "b", "/", "u", "i", ".", "j", "s">>, text |-> <<"i", "m", "p", "o", "r", "t", " ", "x", " ", "f", "r", "o", "m", " ", "'", ".", "/", "d", "o", "m", "'", "\n", "r", "e", "q", "u", "i", "r", "e", "(", "'", ".", "/", "c", "f", "g", "'", ")", "\n">>]>>

\* the tree that lacks the files whose numbers are in lacking
TreeWithout(lacking) == SelectSeq(TreeFiles, LAMBDA f : \A k \in lacking : TreeFiles[k] # f)
Trees == {TreeWithout(l) : l \in {s \in SUBSET (1..Len(TreeFiles)) : Cardinality(s) <= MaxLacking}}

\* scan_repo of a tree
ScanOf(tree, at) == Snapshot([k \in 1..Len(tree) |-> ScanRecord(tree[k].path, tree[k].text)], at)

\* the tree as it was at the scan before: a file had another text, a file
\* was not there yet, a file that is gone was still there
Earlier(tree, kind) ==
    LET edited == [k \in 1..Len(tree) |->
                      IF tree[k].path = <<"l", "i", "b", "/", "u", "t", "i", "l", ".", "p", "y">> THEN [tree[k] EXCEPT !.text = <<"x", "\n">>]
                      ELSE tree[k]]
        fewer(t) == SelectSeq(t, LAMBDA f : f.path # <<"c", "f", "g", ".", "p", "y">>)
        more(t) == t \o <<[path |-> <<"z", "o", "l", "d", ".", "p", "y">>, text |-> <<"a", "\n">>]>>
    IN  CASE kind = "same" -> tree
          [] kind = "edited" -> edited
          [] kind = "added" -> fewer(tree)
          [] kind = "all" -> more(fewer(edited))
EarlierKinds == {"same", "edited", "added", "all"}

\* the saved diff: diff_maps of the scan before and the saved snapshot, or
\* (kind "stale") a diff saved before the last scan, when the tree still had
\* the file zold.py
SavedDiff(tree, kind) ==
    IF kind = "stale"
    THEN diff_maps(ScanOf(tree, 1),
                   ScanOf(tree \o <<[path |-> <<"z", "o", "l", "d", ".", "p", "y">>, text |-> <<"a", "\n">>]>>, 2))
    ELSE diff_maps(ScanOf(Earlier(tree, kind), 1), ScanOf(tree, 2))

\* a tree with a file whose name has a backslash (one file of the root
\* directory, on a system whose path separator is "/")
BackslashTree ==
    <<[path |-> <<"c", "f", "g", ".", "p", "y">>, text |-> <<"x", "\n">>],
      [path |-> <<"l", "i", "b", "\\", "x", ".", "p", "y">>, text |-> <<"a", "\n">>]>>

Goals == {<<>>, <<"f", "i", "x", " ", "c", "f", "g">>, <<"R", "o", "u", "t", "e", "s", " ", "u", "t", "i", "l", " ", "c", "f", "g">>}

\* SETTINGS: the defaults of config.py for the two budgets, or small budgets
DefaultChars == 6000
DefaultBudget == 26000
CtxSettings ==
    {[MAX_FILES_TO_SHOW |-> n, MAX_CHARS_PER_FILE |-> b[1], MAX_TOTAL_CONTEXT_CHARS |-> b[2]] :
        n \in 1..MaxShow, b \in {<<DefaultChars, DefaultBudget>>, <<CharsLow, BudgetLow>>}}

NoBundle == [chunks |-> <<>>]

\* api_plan: build_llm_context(repo_root(), after, diff, goal) with the saved
\* snapshot and the saved diff of it against the snapshot before
CtxInputs ==
    {[pc |-> "called", conf |-> s, disk |-> t, repo_map |-> ScanOf(t, 2),
      diff |-> SavedDiff(t, e), goal |-> g,
      chosen0 |-> <<>>, chosen |-> <<>>, max_new |-> ExpandMaxNew, out |-> NoBundle] :
        s \in CtxSettings, t \in Trees, e \in EarlierKinds \cup {"stale"}, g \in Goals}
    \cup {[pc |-> "called", conf |-> s, disk |-> BackslashTree,
           repo_map |-> ScanOf(BackslashTree, 2), diff |-> SavedDiff(BackslashTree, "same"),
           goal |-> <<>>, chosen0 |-> <<>>, chosen |-> <<>>, max_new |-> ExpandMaxNew,
           out |-> NoBundle] : s \in CtxSettings}

\* _expand_neighbors_by_imports called with a selection of the full tree
ExpandInputs ==
    {[pc |-> "expand_called", conf |-> s, disk |-> TreeFiles, repo_map |-> ScanOf(TreeFiles, 2),
      diff |-> diff_maps(ScanOf(TreeFiles, 2), ScanOf(TreeFiles, 2)), goal |-> <<>>,
      chosen0 |-> c, chosen |-> c, max_new |-> n, out |-> NoBundle] :
        s \in {x \in CtxSettings : x.MAX_FILES_TO_SHOW = 1 /\ x.MAX_CHARS_PER_FILE = CharsLow},
        c \in {<<<<"a", "p", "p", ".", "p", "y">>>>, <<<<"w", "e", "b", "/", "u", "i", ".", "j", "s">>>>, <<<<"a", "p", "p", ".", "p", "y">>, <<"c", "f", "g", ".", "p", "y">>>>,
               <<<<"r", "o", "u", "t", "e", "s", ".", "p", "y">>, <<"w", "e", "b", "/", "u", "i", ".", "j", "s">>, <<"a", "p", "p", ".", "p", "y">>>>},
        n \in 0..MaxNew}

InitCtx ==
    /\ ApplyIdle
    /\ scanCall = NoCall
    /\ planCall = NoCall
    /\ diffCall = NoCall
    /\ ctxCall \in CtxInputs \cup ExpandInputs
    /\ opCall = NoCall

\* line 479: chosen = choose_files_for_context(repo_map, diff, goal)
ChooseFiles ==
    /\ ctxCall.pc = "called"
    /\ LET chosen == choose_files_for_context(ctxCall.repo_map, ctxCall.diff, ctxCall.goal,
                                              ctxCall.conf.MAX_FILES_TO_SHOW)
       IN  ctxCall' = [ctxCall EXCEPT !.pc = "chosen", !.chosen0 = chosen, !.chosen = chosen]
    /\ UNCHANGED <<applyVars, diffCall, opCall, scanCall, planCall>>

\* lines 481-501
Rescore ==
    /\ ctxCall.pc = "chosen"
    /\ ctxCall' = [ctxCall EXCEPT
          !.pc = "rescored",
          !.chosen = RescoreChosen(ctxCall.disk, ctxCall.chosen,
                                   _file_meta_index(ctxCall.repo_map), ctxCall.diff,
                                   _tokenize_goal(ctxCall.goal),
                                   ctxCall.conf.MAX_FILES_TO_SHOW)]
    /\ UNCHANGED <<applyVars, diffCall, opCall, scanCall, planCall>>

\* lines 504-510, and the function called by itself
ExpandNeighbors ==
    /\ ctxCall.pc \in {"rescored", "expand_called"}
    /\ ctxCall' = [ctxCall EXCEPT
          !.pc = IF ctxCall.pc = "rescored" THEN "expanded" ELSE "expand_returned",
          !.chosen = _expand_neighbors_by_imports(ctxCall.disk, ctxCall.chosen,
                                                  AllFilesOf(ctxCall.repo_map),
                                                  _file_meta_index(ctxCall.repo_map),
                                                  ctxCall.max_new)]
    /\ UNCHANGED <<applyVars, diffCall, opCall, scanCall, planCall>>

\* lines 512-569: the text is assembled and returned with the selection
Assemble ==
    /\ ctxCall.pc = "expanded"
    /\ ctxCall' = [ctxCall EXCEPT
          !.pc = "returned",
          !.out = Assembled(ctxCall.disk, ctxCall.repo_map, ctxCall.diff, ctxCall.goal,
                            ctxCall.chosen, ctxCall.conf)]
    /\ UNCHANGED <<applyVars, diffCall, opCall, scanCall, planCall>>

NextCtx ==
    \/ ChooseFiles
    \/ Rescore
    \/ ExpandNeighbors
    \/ Assemble

SpecCtx == InitCtx /\ [][NextCtx]_vars

\* ------------------------------------------------- calls of the patch ops
\* the most lines a text of the enumerated calls has
MaxLines == 3

OpLines == {<<"a", "\n">>, <<"b", "\n">>, <<"c", "\n">>}
\* texts of up to MaxLines lines, the last line with or without its line end,
\* and a text where the second and the fourth line are the same
OpTexts ==
    {Join(ls) \o last : ls \in SeqsUpTo(OpLines, MaxLines), last \in {<<>>, <<"b">>}}
    \cup {<<"a", "\n", "b", "\n", "c", "\n", "b", "\n">>}
\* line numbers below 1, within the text and beyond it
OpLineNumbers == 0..(MaxLines + 2)
OpNewTexts == {<<>>, <<"X", "\n">>, <<"X">>}
OpMatches == {<<"b">>, <<>>, <<"b", "\n">>, <<"z">>}

OpCallRec(fn, text, a, b, new_text, match, insert_text, once) ==
    [pc |-> "called", fn |-> fn, text |-> text, start_line |-> a, end_line |-> b,
     new_text |-> new_text, match |-> match, insert_text |-> insert_text, once |-> once,
     out |-> <<>>]

OpInputs ==
    {OpCallRec("_replace_range", t, a, b, n, <<>>, <<>>, TRUE) :
        t \in OpTexts, a \in OpLineNumbers, b \in OpLineNumbers, n \in OpNewTexts \ {<<>>}}
    \cup {OpCallRec("_delete_range", t, a, b, <<>>, <<>>, <<>>, TRUE) :
        t \in OpTexts, a \in OpLineNumbers, b \in OpLineNumbers}
    \cup {OpCallRec(f, t, 0, 0, <<>>, m, n, o) :
        f \in {"_insert_after", "_insert_before"}, t \in OpTexts, m \in OpMatches,
        n \in OpNewTexts \ {<<>>}, o \in BOOLEAN}

InitOps ==
    /\ ApplyIdle
    /\ scanCall = NoCall
    /\ planCall = NoCall
    /\ diffCall = NoCall
    /\ ctxCall = NoCall
    /\ opCall \in OpInputs

Returns(fn, out) ==
    /\ opCall.pc = "called"
    /\ opCall.fn = fn
    /\ opCall' = [opCall EXCEPT !.pc = "returned", !.out = out]
    /\ UNCHANGED <<applyVars, diffCall, ctxCall, scanCall, planCall>>

ReplaceRange ==
    Returns("_replace_range",
            _replace_range(opCall.text, opCall.start_line, opCall.end_line, opCall.new_text))

DeleteRange ==
    Returns("_delete_range", _delete_range(opCall.text, opCall.start_line, opCall.end_line))

InsertAfter ==
    Returns("_insert_after",
            _insert_after(opCall.text, opCall.match, opCall.insert_text, opCall.once))

InsertBefore ==
    Returns("_insert_before",
            _insert_before(opCall.text, opCall.match, opCall.insert_text, opCall.once))

NextOps ==
    \/ ReplaceRange
    \/ DeleteRange
    \/ InsertAfter
    \/ InsertBefore

SpecOps == InitOps /\ [][NextOps]_vars

\* --------------------------------------------------------------- scan_repo
\* SETTINGS.IGNORE_DIRS without the backup root
IGNORE_DIRS_noBackups ==
    {<<".", "g", "i", "t">>, <<"n", "o", "d", "e", "_", "m", "o", "d", "u", "l", "e", "s">>, <<".", "n", "e", "x", "t">>, <<"d", "i", "s", "t">>, <<"b", "u", "i", "l", "d">>, <<"_", "_", "p", "y", "c", "a", "c", "h", "e", "_", "_">>, <<".", "v", "e", "n", "v">>,
     <<"v", "e", "n", "v">>, <<".", "m", "y", "p", "y", "_", "c", "a", "c", "h", "e">>, <<".", "p", "y", "t", "e", "s", "t", "_", "c", "a", "c", "h", "e">>, <<".", "a", "u", "t", "o", "u", "p", "d", "a", "t", "e", "r", "_", "s", "t", "a", "t", "e">>}

\* SETTINGS.IGNORE_DIRS
IGNORE_DIRS ==
    {<<".", "g", "i", "t">>, <<"n", "o", "d", "e", "_", "m", "o", "d", "u", "l", "e", "s">>, <<".", "n", "e", "x", "t">>, <<"d", "i", "s", "t">>, <<"b", "u", "i", "l", "d">>, <<"_", "_", "p", "y", "c", "a", "c", "h", "e", "_", "_">>, <<".", "v", "e", "n", "v">>,
     <<"v", "e", "n", "v">>, <<".", "m", "y", "p", "y", "_", "c", "a", "c", "h", "e">>, <<".", "p", "y", "t", "e", "s", "t", "_", "c", "a", "c", "h", "e">>, <<".", "a", "u", "t", "o", "u", "p", "d", "a", "t", "e", "r", "_", "s", "t", "a", "t", "e">>,
     <<".", "a", "u", "t", "o", "u", "p", "d", "a", "t", "e", "r", "_", "b", "a", "c", "k", "u", "p", "s">>}

\* SETTINGS.MAX_FILE_MB, and the bytes of one MB as scan_repo counts them
MAX_FILE_MB == 2
BytesPerMB == 1048576
\* the bytes _is_probably_binary looks at
BinaryProbe == 2048

\* A file of the tree scan_repo walks: the names of the directories from the
\* root to it, its name, whether stat() and read_bytes() succeed, st_size,
\* the place of its first NUL byte (0: none) and its text after decoding.
ScanEntry(dir, name, stat_ok, size, read_ok, nul_at, text) ==
    [dir |-> dir, name |-> name, stat_ok |-> stat_ok, size |-> size, read_ok |-> read_ok,
     nul_at |-> nul_at, text |-> text]

\* b"\x00" in b[:2048]
_is_probably_binary(e) == e.nul_at >= 1 /\ e.nul_at <= BinaryProbe

\* _safe_read_text: None when the read raises or the bytes look binary,
\* else the decoded text (errors="replace" never raises)
NoText == [none |-> TRUE, text |-> <<>>]
_safe_read_text(e) ==
    IF ~e.read_ok THEN NoText
    ELSE IF _is_probably_binary(e) THEN NoText
    ELSE [none |-> FALSE, text |-> e.text]

\* p.relative_to(root).as_posix()
RECURSIVE RelPath(_, _)
RelPath(dir, name) ==
    IF dir = <<>> THEN name ELSE Head(dir) \o <<"/">> \o RelPath(Tail(dir), name)

\* lines 138-179: the record of one file name, or nothing
FileRecord(e) ==
    LET rel == RelPath(e.dir, e.name)
        ext == LowerStr(PathSuffix(e.name))
    IN  IF ext \notin TextExtChars THEN <<>>
        ELSE IF ~e.stat_ok THEN <<>>
        ELSE IF e.size > MAX_FILE_MB * BytesPerMB THEN <<>>
        ELSE IF _safe_read_text(e).none THEN <<>>
        ELSE <<[ScanRecord(rel, _safe_read_text(e).text) EXCEPT !.size = e.size]>>

RECURSIVE FileRecords(_)
FileRecords(es) == IF es = <<>> THEN <<>> ELSE FileRecord(Head(es)) \o FileRecords(Tail(es))

\* os.walk at directory dir: its filenames, and its dirnames in listing order
FileNames(tree, dir) == SelectSeq(tree, LAMBDA e : e.dir = dir)
DirNames(tree, dir) ==
    LET below == SelectSeq(tree, LAMBDA e : Len(e.dir) > Len(dir)
                                            /\ SubSeq(e.dir, 1, Len(dir)) = dir)
    IN  Dedup([k \in 1..Len(below) |-> below[k].dir[Len(dir) + 1]])

\* a walk that descends into every directory
Pruned_none(dirnames) == dirnames

\* line 135: dirnames[:] = [d for d in dirnames if d not in SETTINGS.IGNORE_DIRS]
Pruned(dirnames) == SelectSeq(dirnames, LAMBDA d : d \notin IGNORE_DIRS)

\* lines 134-179: os.walk top-down, the records in the order of the walk
RECURSIVE Walk(_, _), WalkDirs(_, _, _)
Walk(tree, dir) ==
    FileRecords(FileNames(tree, dir)) \o WalkDirs(tree, dir, Pruned(DirNames(tree, dir)))
WalkDirs(tree, dir, names) ==
    IF names = <<>> THEN <<>>
    ELSE Walk(tree, Append(dir, Head(names))) \o WalkDirs(tree, dir, Tail(names))

\* a scan that leaves the records in the order of the walk
SortByPath_unsorted(files) == files

\* line 181: files.sort(key=lambda x: x["path"]), a stable sort
SortByPath(files) ==
    LET place == [j \in 1..Len(files) |->
                    1 + Cardinality({m \in 1..Len(files) :
                            \/ StrLess(files[m].path, files[j].path)
                            \/ (files[m].path = files[j].path /\ m < j)})]
    IN  [k \in 1..Len(files) |-> files[CHOOSE j \in 1..Len(files) : place[j] = k]]

scan_repo(tree, at) == Snapshot(SortByPath(Walk(tree, <<>>)), at)

\* ----------------------------------------------------- inputs of scan_repo
\* the files a tree of the model may have, in the order the directory
\* listings give them
ScanCandidates ==
    <<ScanEntry(<<<<"w", "e", "b">>>>, <<"u", "i", ".", "j", "s">>, TRUE, 2, TRUE, 0, <<"u", LF>>),
      ScanEntry(<<>>, <<"b", ".", "p", "y">>, TRUE, 2, TRUE, 0, <<"b", LF>>),
      ScanEntry(<<<<"l", "i", "b">>>>, <<"a", ".", "p", "y">>, TRUE, 2, TRUE, 0, <<"a", LF>>),
      ScanEntry(<<<<"l", "i", "b">>, <<"b", "u", "i", "l", "d">>>>, <<"c", ".", "p", "y">>, TRUE, 2, TRUE, 0, <<"c", LF>>),
      ScanEntry(<<<<"d", "i", "s", "t">>>>, <<"d", ".", "p", "y">>, TRUE, 2, TRUE, 0, <<"d", LF>>),
      ScanEntry(<<<<"l", "i", "b">>, <<"b", "u", "i", "l", "d", "e", "r">>>>, <<"g", ".", "p", "y">>, TRUE, 2, TRUE, 0, <<"g", LF>>),
      ScanEntry(<<>>, <<"e", ".", "b", "i", "n">>, TRUE, 2, TRUE, 0, <<"e", LF>>)>>

\* one more file, f.txt: plain, a dangling link, unreadable, with a NUL byte
\* at the start, at the end of the probe and after it, of exactly the size
\* ceiling and one byte over it
ScanSpecials ==
    {ScanEntry(<<>>, <<"f", ".", "t", "x", "t">>, TRUE, 2, TRUE, 0, <<"f", LF>>),
     ScanEntry(<<>>, <<"f", ".", "t", "x", "t">>, FALSE, 2, TRUE, 0, <<"f", LF>>),
     ScanEntry(<<>>, <<"f", ".", "t", "x", "t">>, TRUE, 2, FALSE, 0, <<"f", LF>>),
     ScanEntry(<<>>, <<"f", ".", "t", "x", "t">>, TRUE, 2, TRUE, 1, <<"f", LF>>),
     ScanEntry(<<>>, <<"f", ".", "t", "x", "t">>, TRUE, BinaryProbe, TRUE, BinaryProbe, <<"f", LF>>),
     ScanEntry(<<>>, <<"f", ".", "t", "x", "t">>, TRUE, BinaryProbe + 1, TRUE, BinaryProbe + 1, <<"f", LF>>),
     ScanEntry(<<>>, <<"f", ".", "t", "x", "t">>, TRUE, MAX_FILE_MB * BytesPerMB, TRUE, 0, <<"f", LF>>),
     ScanEntry(<<>>, <<"f", ".", "t", "x", "t">>, TRUE, MAX_FILE_MB * BytesPerMB + 1, TRUE, 0, <<"f", LF>>)}

\* the candidates a choice keeps, in their order
Kept(keep) == SelectSeq(ScanCandidates, LAMBDA e : e.name \in keep)
ScanNames == {ScanCandidates[k].name : k \in 1..Len(ScanCandidates)}

ScanTrees ==
    LET some == {Kept(keep) : keep \in SUBSET ScanNames}
        more == some \cup {<<x>> \o t : x \in ScanSpecials, t \in some}
    IN  more \cup {Reverse(t) : t \in more}

ScanInputs == {[pc |-> "called", tree |-> t, out |-> Snapshot(<<>>, 0)] : t \in ScanTrees}

InitScan ==
    /\ ApplyIdle
    /\ diffCall = NoCall
    /\ ctxCall = NoCall
    /\ opCall = NoCall
    /\ scanCall \in ScanInputs
    /\ planCall = NoCall

\* the call returns its snapshot
ScanRepo ==
    /\ scanCall.pc = "called"
    /\ scanCall' = [scanCall EXCEPT !.pc = "returned", !.out = scan_repo(scanCall.tree, 1)]
    /\ UNCHANGED <<applyVars, diffCall, ctxCall, opCall, planCall>>

NextScan == ScanRepo

SpecScan == InitScan /\ [][NextScan]_vars

\* ------------------------------------------------- scan of the engine's tree
\* the characters of a part of a name of the engine's tree
NamePartChars(t) ==
    CASE t = ".py" -> <<".", "p", "y">>
      [] t = ".bin" -> <<".", "b", "i", "n">>
      [] t = ".tmp" -> <<".", "t", "m", "p">>
      [] t = ".json" -> <<".", "j", "s", "o", "n">>
      [] t = "last_apply_log" -> <<"l", "a", "s", "t", "_", "a", "p", "p", "l", "y", "_", "l", "o", "g">>
      [] t = ".autoupdater_state" -> <<".", "a", "u", "t", "o", "u", "p", "d", "a", "t", "e", "r", "_", "s", "t", "a", "t", "e">>
      [] t = ".autoupdater_backups" -> <<".", "a", "u", "t", "o", "u", "p", "d", "a", "t", "e", "r", "_", "b", "a", "c", "k", "u", "p", "s">>
      [] OTHER -> <<t>>
RECURSIVE NameChars(_)
NameChars(name) ==
    IF name = <<>> THEN <<>> ELSE NamePartChars(Head(name)) \o NameChars(Tail(name))

\* a path from the root lies outside the root
Outside(p) == p # <<>> /\ p[1] \in {SEP, DOTDOT}

RECURSIVE SeqOfSet(_)
SeqOfSet(S) ==
    IF S = {} THEN <<>>
    ELSE LET x == CHOOSE y \in S : TRUE IN <<x>> \o SeqOfSet(S \ {x})

\* api_scan: scan_repo(repo_root()) sees the files of the tree below the
\* root, every one readable and of the size of its text
EngineListing(f) ==
    LET inside == SeqOfSet({p \in AllPaths : ~Outside(p) /\ IsFile(f, p)})
    IN  [k \in 1..Len(inside) |->
            LET p == inside[k]
            IN  ScanEntry([j \in 1..(Len(p) - 1) |-> NameChars(p[j])], NameChars(p[Len(p)]),
                          TRUE, Len(f[p].text), TRUE, 0, f[p].text)]

\* the path string scan_repo gives the file at path p of the tree
PathChars(p) == RelPath([j \in 1..(Len(p) - 1) |-> NameChars(p[j])], NameChars(p[Len(p)]))

\* ------------------------------------------------------------- llm_planner
\* A JSON value as json.loads returns it: None, an int, a str, a list or a
\* dict (its keys and values in the order of the text).
JVal(t, chars, keys, items) == [t |-> t, chars |-> chars, keys |-> keys, items |-> items]
JNull == JVal("null", <<>>, <<>>, <<>>)
JBool(c) == JVal("bool", c, <<>>, <<>>)
JNum(digits) == JVal("num", digits, <<>>, <<>>)
JStr(chars) == JVal("str", chars, <<>>, <<>>)
JArr(items) == JVal("arr", <<>>, <<>>, items)
JObj(keys, vals) == JVal("obj", <<>>, keys, vals)

\* the outcome of a parse: a value and the text after it, or a failure
Parsed(val, rest) == [ok |-> TRUE, val |-> val, rest |-> rest]
NotParsed == [ok |-> FALSE, val |-> JNull, rest |-> <<>>]

RECURSIVE SkipWs(_)
SkipWs(s) == IF s # <<>> /\ Head(s) \in SpaceChars THEN SkipWs(Tail(s)) ELSE s

\* a string without escapes, from its opening quote; a line end inside it
\* is an error
ParseString(s) ==
    LET k == IndexOf(Tail(s), "\"")
    IN  IF k = 0 \/ \E j \in 1..(k - 1) : Tail(s)[j] \in {LF, "\\"} THEN NotParsed
        ELSE Parsed(JStr(SubSeq(Tail(s), 1, k - 1)), SubSeq(Tail(s), k + 1, Len(Tail(s))))

\* an integer: "0", or digits that do not start with "0"
RECURSIVE DigitRun(_)
DigitRun(s) == IF s # <<>> /\ Head(s) \in DigitChars THEN 1 + DigitRun(Tail(s)) ELSE 0
ParseNumber(s) ==
    LET n == IF Head(s) = "0" THEN 1 ELSE DigitRun(s)
    IN  Parsed(JNum(SubSeq(s, 1, n)), SubSeq(s, n + 1, Len(s)))

\* json.loads' scanner over the values the responses of the model use
RECURSIVE ParseValue(_), ParseElements(_, _), ParseMembers(_, _, _)
ParseValue(text) ==
    LET s == SkipWs(text)
    IN  IF s = <<>> THEN NotParsed
        ELSE IF Head(s) = "{" THEN ParseMembers(SkipWs(Tail(s)), <<>>, <<>>)
        ELSE IF Head(s) = "[" THEN ParseElements(SkipWs(Tail(s)), <<>>)
        ELSE IF Head(s) = "\"" THEN ParseString(s)
        ELSE IF Head(s) \in DigitChars THEN ParseNumber(s)
        ELSE IF StartsWith(s, <<"n", "u", "l", "l">>) THEN Parsed(JNull, SubSeq(s, 5, Len(s)))
        ELSE IF StartsWith(s, <<"t", "r", "u", "e">>) THEN Parsed(JBool(<<"t", "r", "u", "e">>), SubSeq(s, 5, Len(s)))
        ELSE IF StartsWith(s, <<"f", "a", "l", "s", "e">>) THEN Parsed(JBool(<<"f", "a", "l", "s", "e">>), SubSeq(s, 6, Len(s)))
        ELSE NotParsed
ParseElements(s, items) ==
    IF s = <<>> THEN NotParsed
    ELSE IF Head(s) = "]" /\ items = <<>> THEN Parsed(JArr(<<>>), Tail(s))
    ELSE LET r == ParseValue(s)
             t == SkipWs(r.rest)
         IN  IF ~r.ok \/ t = <<>> THEN NotParsed
             ELSE IF Head(t) = "," THEN ParseElements(SkipWs(Tail(t)), Append(items, r.val))
             ELSE IF Head(t) = "]" THEN Parsed(JArr(Append(items, r.val)), Tail(t))
             ELSE NotParsed
ParseMembers(s, keys, vals) ==
    IF s = <<>> THEN NotParsed
    ELSE IF Head(s) = "}" /\ keys = <<>> THEN Parsed(JObj(<<>>, <<>>), Tail(s))
    ELSE IF Head(s) # "\"" THEN NotParsed
    ELSE LET k == ParseString(s)
             c == SkipWs(k.rest)
         IN  IF ~k.ok \/ c = <<>> \/ Head(c) # ":" THEN NotParsed
             ELSE LET r == ParseValue(Tail(c))
                      t == SkipWs(r.rest)
                  IN  IF ~r.ok \/ t = <<>> THEN NotParsed
                      ELSE IF Head(t) = ","
                      THEN ParseMembers(SkipWs(Tail(t)), Append(keys, k.val.chars),
                                        Append(vals, r.val))
                      ELSE IF Head(t) = "}"
                      THEN Parsed(JObj(Append(keys, k.val.chars), Append(vals, r.val)), Tail(t))
                      ELSE NotParsed

\* json.loads(extracted): the value, or an exception (text after the value
\* is an error)
json_loads(text) ==
    LET r == ParseValue(text)
    IN  IF r.ok /\ SkipWs(r.rest) = <<>> THEN Parsed(r.val, <<>>) ELSE NotParsed

\* "files" in plan and plan["files"]: of equal keys the last one counts
HasKey(obj, key) == \E k \in 1..Len(obj.keys) : obj.keys[k] = key
GetKey(obj, key) ==
    obj.items[CHOOSE k \in 1..Len(obj.keys) :
                  obj.keys[k] = key /\ \A j \in (k + 1)..Len(obj.keys) : obj.keys[j] # key]

\* _extract_json_object: the stripped text when it starts with "{" and ends
\* with "}", else the match of \{.*\} (from the first "{" to the last "}"),
\* else "{}"
_extract_json_object(raw) ==
    LET text == Strip(raw)
        a == IndexOf(text, "{")
        b == LastIndexOf(text, "}")
    IN  IF text = <<>> THEN <<"{", "}">>
        ELSE IF Head(text) = "{" /\ text[Len(text)] = "}" THEN text
        ELSE IF a > 0 /\ b > a THEN Strip(SubSeq(text, a, b))
        ELSE <<"{", "}">>

\* a check that takes any dict
_basic_plan_sanity_anyDict(v) == v.t = "obj"

\* _basic_plan_sanity: ok, or the first reason it fails for
_basic_plan_sanity(v) ==
    /\ v.t = "obj"
    /\ HasKey(v, <<"f", "i", "l", "e", "s">>)
    /\ GetKey(v, <<"f", "i", "l", "e", "s">>).t = "arr"
    /\ \A k \in 1..Len(GetKey(v, <<"f", "i", "l", "e", "s">>).items) : GetKey(v, <<"f", "i", "l", "e", "s">>).items[k].t = "obj"

\* range(1, 4): the attempts of plan_patches
Attempts == 3

\* the prompt of the first call (the trimmed goal and context), and one that
\* repeats it for a repair
PlanPrompt == [kind |-> "plan", previous |-> <<>>]
RepairPrompt_fresh(last_text) == PlanPrompt

\* lines 151-158: the repair prompt carries the previous raw output
RepairPrompt(last_text) == [kind |-> "repair", previous |-> last_text]

\* {"files": []}
EmptyPlan == JObj(<<<<"f", "i", "l", "e", "s">>>>, <<JArr(<<>>)>>)

\* --------------------------------------------------- inputs of plan_patches
\* what a call of the model gives: an exception of the client library, or
\* resp.output_text
ModelRaises == [raises |-> TRUE, text |-> <<>>]
ModelSays(text) == [raises |-> FALSE, text |-> text]
ModelOutcomes ==
    {ModelRaises,
     ModelSays(<<"{", "\"", "f", "i", "l", "e", "s", "\"", ":", " ", "[", "]", "}">>),
     ModelSays(<<"{", "\"", "f", "i", "l", "e", "s", "\"", ":", " ", "[", "{", "\"", "p", "a", "t", "h", "\"", ":", " ", "\"", "a", "\"", "}", "]", "}">>),
     ModelSays(<<LF>> \o <<"p", "l", "a", "n", ":", " ", "{", "\"", "f", "i", "l", "e", "s", "\"", ":", " ", "[", "]", "}", " ", "d", "o", "n", "e">>),
     ModelSays(<<>>),
     ModelSays(<<"{", "\"", "f", "i", "l", "e", "s", "\"", ":", " ", "1", "}">>),
     ModelSays(<<"{", "\"", "f", "i", "l", "e", "s", "\"", ":", " ", "[", "1", "]", "}">>),
     ModelSays(<<"[", "]">>),
     ModelSays(<<"{", "\"", "f", "i", "l", "e", "s", "\"", ":", " ", "[", "}">>),
     ModelSays(<<"{", "\"", "f", "i", "l", "e", "s", "\"", ":", " ", "[", "]", "}", " ", "{", "\"", "x", "\"", ":", " ", "1", "}">>),
     ModelSays(<<"{", "\"", "p", "l", "a", "n", "\"", ":", " ", "{", "\"", "f", "i", "l", "e", "s", "\"", ":", " ", "[", "]", "}", "}">>)}

\* a call of plan_patches: whether _client() gives a client, the loop's
\* attempt and last_text, the prompts sent and the raw outputs got so far,
\* and what the call returned or raised
PlanInputs ==
    {[pc |-> "called", client_ok |-> c, attempt |-> 0, last_text |-> <<>>, sent |-> <<>>,
      got |-> <<>>, out |-> JNull, raised |-> ""] : c \in BOOLEAN}

InitPlan ==
    /\ ApplyIdle
    /\ diffCall = NoCall
    /\ ctxCall = NoCall
    /\ opCall = NoCall
    /\ scanCall = NoCall
    /\ planCall \in PlanInputs

\* line 136: client = _client() raises without the package or the API key
MakeClient ==
    /\ planCall.pc = "called"
    /\ planCall' = IF planCall.client_ok
                   THEN [planCall EXCEPT !.pc = "loop", !.attempt = 1]
                   ELSE [planCall EXCEPT !.pc = "raised", !.raised = "RuntimeError"]
    /\ UNCHANGED <<applyVars, diffCall, ctxCall, opCall, scanCall>>

\* lines 147-176: one attempt of the loop
Attempt ==
    /\ planCall.pc = "loop"
    /\ planCall.attempt <= Attempts
    /\ \E o \in ModelOutcomes :
          LET prompt == IF planCall.attempt = 1 THEN PlanPrompt
                        ELSE RepairPrompt(planCall.last_text)
              sent == Append(planCall.sent, prompt)
              parsed == json_loads(_extract_json_object(o.text))
          IN  planCall' =
                 IF o.raises
                 THEN [planCall EXCEPT !.pc = "raised", !.raised = "APIError", !.sent = sent]
                 ELSE IF parsed.ok /\ _basic_plan_sanity(parsed.val)
                 THEN [planCall EXCEPT !.pc = "returned", !.out = parsed.val, !.sent = sent,
                                       !.got = Append(planCall.got, o.text),
                                       !.last_text = o.text]
                 ELSE [planCall EXCEPT !.attempt = planCall.attempt + 1, !.sent = sent,
                                       !.got = Append(planCall.got, o.text),
                                       !.last_text = o.text]
    /\ UNCHANGED <<applyVars, diffCall, ctxCall, opCall, scanCall>>

\* lines 178-179: the loop is over, the empty plan is returned
GiveUp ==
    /\ planCall.pc = "loop"
    /\ planCall.attempt > Attempts
    /\ planCall' = [planCall EXCEPT !.pc = "returned", !.out = EmptyPlan]
    /\ UNCHANGED <<applyVars, diffCall, ctxCall, opCall, scanCall>>

NextPlan == MakeClient \/ Attempt \/ GiveUp

\* plan_patches runs on: no step of it waits for anything but the model's answer
SpecPlan == InitPlan /\ [][NextPlan]_vars /\ WF_vars(NextPlan)

\* ------------------------------------------------------------------ claims
InCall == pc # "idle"
Terminal == {"skipped", "failed", "noop", "would_update", "updated"}
LastResult(rs) == rs[Len(rs)]

\* C1 (as claimed): a dry-run apply never mutates the file system; at every
\* moment of a dry-run call and after it, the tree and the apply log are what
\* they were when the call started.
C1_DryRunNeverMutates ==
    (InCall /\ dry_run) => (fs = fs0 /\ apply_log = log0)

\* C2 (as claimed): when a real apply of the plan follows a dry-run apply of
\* it and starts on the same files and directories, every entry has the same
\* diff in both result lists, and is would_update in the dry run exactly when
\* it is updated in the real run.
C2_DryRunDiffMatchesRealApply ==
    (pc = "returned" /\ ~dry_run /\ prev.valid /\ prev.dry_run /\ prev.nodes = TargetNodes(fs0))
    => /\ Len(results) = Len(prev.results)
       /\ \A k \in 1..Len(results) :
             /\ results[k].diff = prev.results[k].diff
             /\ (prev.results[k].status = "would_update") <=> (results[k].status = "updated")

\* the plan has one entry, and its path is empty, absolute or has a ".." segment
UnsafeOnlyPlan ==
    /\ plan.isList /\ Len(plan.files) = 1 /\ plan.files[1].isDict
    /\ LET rel == NormRel(plan.files[1].path)
       IN  \/ rel = <<>>
           \/ rel[1] = SEP
           \/ \E k \in 1..Len(rel) : rel[k] = DOTDOT

OwnArtifacts == {STATE_DIR, BACKUP_DIR, BackupDirOf(run_id), LogPath}

C4_NoopTouchesNothing ==
    [][(pc = "loop" /\ pc' = "loop" /\ Len(results') = Len(results) + 1
        /\ LastResult(results').status = "noop") => fs' = fs]_vars

\* C5 (as claimed): the only thing that makes apply_patch_plan raise is the
\* dirty-working-tree precondition; no error met while processing an entry does.
C5_OnlyDirtyTreeRaises ==
    pc = "raised" => raised = "RuntimeError"

\* C6: with the require-clean mode on and outstanding changes reported, the
\* call raises before anything is made or written and before any entry is
\* processed; when git cannot be run or its status query fails, the tree
\* counts as clean and the call goes on to its setup.
C6_DirtyTreeAbortsBeforeMutation ==
    /\ (pc = "raised" /\ raised = "RuntimeError")
          => /\ settings.REQUIRE_CLEAN_GIT /\ git = GitDirty
             /\ fs = fs0 /\ apply_log = log0
             /\ results = <<>> /\ i = 0 /\ run_id = <<>>
    /\ git = GitDirty => (pc = "raised" /\ raised = "RuntimeError")
    /\ git \in {GitRaises, GitFails}
          => pc = "setup"

\* a real apply after a preview is refused for a dirty tree, the tree as the
\* preview left it
C6_Witness ==
    /\ pc = "raised" /\ raised = "RuntimeError" /\ calls = 2
    /\ Len(Files) > 0
    /\ prev.valid /\ fs0 # InitTree /\ fs = fs0

\* C7 (as claimed): when a call that passed its precondition ends, the result
\* list has one record per plan entry, in plan order, each with one of the five
\* outcomes; would_update only in dry-run mode and updated only in real mode.
C7_EveryEntryOneOutcome ==
    (pc \in {"returned", "raised"} /\ raised # "RuntimeError")
    => /\ Len(results) = Len(Files)
       /\ \A k \in 1..Len(results) :
             /\ Files[k].isDict /\ results[k].file = NormRel(Files[k].path)
             /\ results[k].status \in Terminal
             /\ results[k].status = "would_update" => dry_run
             /\ results[k].status = "updated" => ~dry_run

\* the keys an operation of a known type must have
RequiredKeys(t) ==
    CASE t = "replace_range" -> {"start_line", "end_line", "new_text"}
      [] t = "delete_range" -> {"start_line", "end_line"}
      [] t = "replace_text" -> {"find", "replace"}
      [] t \in {"insert_after", "insert_before"} -> {"match", "insert_text"}
      [] OTHER -> {}
KnownTypes == {"replace_range", "delete_range", "replace_text", "insert_after",
               "insert_before", "append"}

\* the error the operation raises whatever text it is given, "" if none
OpError(op) ==
    IF ~op.isDict THEN "AttributeError"
    ELSE IF "type" \notin op.keys \/ op.type \notin KnownTypes THEN "Unknown op type"
    ELSE IF ~(RequiredKeys(op.type) \subseteq op.keys) THEN "KeyError"
    ELSE ""
BadOp(op) == OpError(op) # ""

\* the entry passes the checks made before its operations run
Editable(f, tree, allow_create) ==
    /\ f.isDict
    /\ LET rel == NormRel(f.path)
       IN  /\ rel # <<>> /\ rel[1] # SEP /\ \A k \in 1..Len(rel) : rel[k] # DOTDOT
           /\ IF Exists(tree, Resolve(rel))
              THEN IsFile(tree, Resolve(rel)) /\ _ensure_text_allowed(Resolve(rel))
              ELSE allow_create

FirstBad(ops) == CHOOSE k \in 1..Len(ops) : BadOp(ops[k]) /\ \A j \in 1..(k - 1) : ~BadOp(ops[j])

\* C8: when an entry that passes validation has an unrecognized (or raising)
\* operation in its list, the step that processes it appends a failed record
\* carrying that error, writes and backs up no file (the edits made in memory
\* are dropped), starts no write, and leaves the loop at the next entry.
C8_BadOpFailsEntryOnly ==
    [][(/\ pc = "loop" /\ i <= Len(Files)
        /\ Editable(Files[i], fs, settings.ALLOW_CREATE_FILES)
        /\ Files[i].opsIsList
        /\ \E k \in 1..Len(Files[i].ops) : BadOp(Files[i].ops[k])
        /\ pc' \notin {"stopped", "raised"})
       => /\ pc' = "loop" /\ i' = i + 1 /\ cur' = NoCur
          /\ results' = Append(results,
                 Result(NormRel(Files[i].path), "failed",
                        OpError(Files[i].ops[FirstBad(Files[i].ops)]), 0, <<>>, <<>>))
          /\ \A p \in AllPaths : (IsFile(fs, p) \/ IsFile(fs', p)) => fs'[p] = fs[p]
    ]_vars

\* a real run in which an entry with an edit before and after an unknown
\* operation failed, its file kept its text, and the next entry got its record
C8_Witness ==
    /\ ~dry_run /\ Len(results) = 2 /\ Len(Files) = 2
    /\ Files[1].ops = OpsUnknownMid
    /\ results[1].status = "failed" /\ results[1].reason = "Unknown op type"
    /\ fs[<<A_PY>>] = fs0[<<A_PY>>]
    /\ results[2].status = "updated"

BackupDst(c) == BackupDirOf(run_id) \o PathParts(c.rel)

\* C9: in real mode an entry whose text changed is written only after its
\* file, if it exists, has been copied to <backup dir>/<rel>: through the whole
\* write the backup equals the content being replaced, and the backup step
\* changes nothing else; if the file does not exist the backup step does
\* nothing; and an updated record is appended only when the file holds
\* exactly the final text.
C9_BackupBeforeWrite ==
    /\ [](pc \in {"aw_mkdir", "aw_open", "aw_write", "aw_replace"}
            => /\ ~dry_run
               /\ cur.updated # cur.original
               /\ Exists(fs, cur.p) =>
                     /\ fs[cur.p] = FileN(cur.original)
                     /\ fs[BackupDst(cur)] = fs[cur.p])
    /\ [](pc = "record" => fs[cur.p] = FileN(cur.updated))
    /\ [][(pc = "backup" /\ pc' = "aw_mkdir")
            => IF Exists(fs, cur.p)
               THEN /\ fs'[BackupDst(cur)] = fs[cur.p]
                    /\ \A p \in TreePaths : fs'[p] = fs[p]
               ELSE fs' = fs]_vars
    /\ [][(Len(results') > Len(results) /\ LastResult(results').status = "updated")
            => /\ pc = "record"
               /\ fs'[cur.p] = FileN(LastResult(results').text)]_vars
    /\ [][(pc = "loop" /\ pc' = "backup")
            => /\ ~dry_run
               /\ \A p \in AllPaths : (IsFile(fs, p) \/ IsFile(fs', p)) => fs'[p] = fs[p]]_vars

\* the write of an existing file is done: the backup holds the old content,
\* the file the new text
C9_Witness ==
    /\ pc = "record" /\ ~dry_run
    /\ IsFile(fs0, cur.p)
    /\ fs[BackupDst(cur)] = fs0[cur.p]
    /\ fs[cur.p] = FileN(cur.updated)
    /\ cur.updated # cur.original

\* the call is inside _atomic_write for cur, or ended there
InWrite ==
    \/ pc \in {"aw_mkdir", "aw_open", "aw_write", "aw_replace", "record"}
    \/ pc = "stopped" /\ stoppedAt \in {"aw_mkdir", "aw_open", "aw_write", "aw_replace", "record"}
    \/ pc = "raised" /\ cur # NoCur

\* C10: wherever the process stops in _atomic_write (or the write raises), the
\* target holds the whole previous content (or is still absent) or the whole
\* new text; and when a call ends part-way through its plan, by an exception
\* or a stop, the file of every entry already recorded updated still holds
\* the text that entry wrote (unless a later entry of the plan rewrote it).
C10_SingleFileAllOrNothing ==
    /\ InWrite => fs[cur.p] \in {cur.before, FileN(cur.updated)}
    /\ pc \in {"raised", "stopped"} =>
          \A k \in 1..Len(results) :
             (/\ results[k].status = "updated"
              /\ \A j \in (k + 1)..Len(results) :
                    ~(results[j].status = "updated" /\ Resolve(results[j].file) = Resolve(results[k].file))
              /\ (cur = NoCur \/ cur.p # Resolve(results[k].file)))
             => fs[Resolve(results[k].file)] = FileN(results[k].text)

\* the process stopped while the temporary file of the second entry was half
\* written: the second target is untouched, the first entry's file is updated
C10_Witness ==
    /\ pc = "stopped" /\ stoppedAt = "aw_write"
    /\ Len(results) = 1 /\ results[1].status = "updated"
    /\ cur.p # Resolve(results[1].file)
    /\ fs[cur.p] = cur.before
    /\ fs[TmpSibling(cur.p)] = FileN(<<>>)
    /\ cur.updated # <<>>
    /\ fs[Resolve(results[1].file)] = FileN(results[1].text)
    /\ fs[Resolve(results[1].file)] # fs0[Resolve(results[1].file)]

\* ------------------------------------------------- claims about diff_maps
DiffDone == diffCall.pc = "returned"
\* the paths of a snapshot, and the digest the snapshot has for a path
PathsOf(snapshot) == {snapshot.files[k].path : k \in 1..Len(snapshot.files)}
ShaIn(snapshot, p) ==
    snapshot.files[CHOOSE k \in 1..Len(snapshot.files) : snapshot.files[k].path = p].sha256
\* how many times x is in the list
Occurrences(list, x) == Cardinality({k \in 1..Len(list) : list[k] = x})

\* C11: the diff of a snapshot against itself has empty added, removed and
\* modified lists, no rename hint and no magnitude entry.
C11_SelfDiffIsEmpty ==
    (DiffDone /\ diffCall.before.files = diffCall.after.files)
    => /\ diffCall.out.added = <<>>
       /\ diffCall.out.removed = <<>>
       /\ diffCall.out.modified = <<>>
       /\ diffCall.out.summary.renames = <<>>
       /\ diffCall.out.summary.top_changed_files = <<>>
       /\ diffCall.out.counts = [added |-> 0, removed |-> 0, modified |-> 0]

\* a snapshot of three files was compared with itself
C11_Witness ==
    /\ DiffDone /\ diffCall.before.files = diffCall.after.files
    /\ Len(diffCall.before.files) = 3
    /\ diffCall.out.modified = <<>>

\* C12: every path is in at most one of added, removed and modified, and at
\* most once in that list.
C12_PathInAtMostOneList ==
    DiffDone =>
       \A p \in PathsOf(diffCall.before) \cup PathsOf(diffCall.after) :
          Occurrences(diffCall.out.added, p) + Occurrences(diffCall.out.removed, p)
             + Occurrences(diffCall.out.modified, p) <= 1

\* a diff with a path in each of the three lists
C12_Witness ==
    /\ DiffDone
    /\ diffCall.out.added # <<>>
    /\ diffCall.out.removed # <<>>
    /\ diffCall.out.modified # <<>>

\* old is gone, new has appeared, and new has the content old had
Moved(old, new) ==
    /\ old \in PathsOf(diffCall.before) \ PathsOf(diffCall.after)
    /\ new \in PathsOf(diffCall.after) \ PathsOf(diffCall.before)
    /\ ShaIn(diffCall.before, old) = ShaIn(diffCall.after, new)
MovedPairs ==
    {m \in PathsOf(diffCall.before) \X PathsOf(diffCall.after) : Moved(m[1], m[2])}
HintOf(old, new) == [from |-> old, to |-> new, sha256 |-> ShaIn(diffCall.after, new)]

\* C13 (as claimed): for every file moved without a change of content the old
\* path is once in removed, the new path once in added, and the rename hints
\* hold {from: old, to: new} with that digest, for any number of moved files.
C13_EveryMoveHinted ==
    DiffDone =>
       \A m \in MovedPairs :
          /\ Occurrences(diffCall.out.removed, m[1]) = 1
          /\ Occurrences(diffCall.out.added, m[2]) = 1
          /\ InList(HintOf(m[1], m[2]), diffCall.out.summary.renames)

\* C13 (amended): for every file moved without a change of content the old
\* path is once in removed and the new path once in added; the rename hints
\* are pairs of such paths with their digest, never more than RenameCap of
\* them; every moved file has its hint when there are at most RenameCap
\* pairs, and exactly RenameCap hints are kept when there are more.
C13_MoveHintedUpToCap ==
    DiffDone =>
       /\ \A m \in MovedPairs :
             /\ Occurrences(diffCall.out.removed, m[1]) = 1
             /\ Occurrences(diffCall.out.added, m[2]) = 1
       /\ \A k \in 1..Len(diffCall.out.summary.renames) :
             LET h == diffCall.out.summary.renames[k]
             IN  <<h.from, h.to>> \in MovedPairs /\ h = HintOf(h.from, h.to)
       /\ Len(diffCall.out.summary.renames) <= RenameCap
       /\ IF Cardinality(MovedPairs) <= RenameCap
          THEN \A m \in MovedPairs :
                  Occurrences(diffCall.out.summary.renames, HintOf(m[1], m[2])) = 1
          ELSE Len(diffCall.out.summary.renames) = RenameCap

\* a file was moved while another file was modified: the hint is there
C13_Witness ==
    /\ DiffDone
    /\ diffCall.out.modified # <<>>
    /\ \E m \in MovedPairs : InList(HintOf(m[1], m[2]), diffCall.out.summary.renames)


\* ---- selection (SpecCtx)
\* choose_files_for_context has returned in a call of build_llm_context
ChosenDone == ctxCall.pc \in {"chosen", "rescored", "expanded", "returned"}
\* build_llm_context has returned
BuildDone == ctxCall.pc = "returned"
\* the diff names a path
DiffNonEmpty == ctxCall.diff.added \o ctxCall.diff.removed \o ctxCall.diff.modified # <<>>
\* the paths of the snapshot
InSnapshot(p) == \E k \in 1..Len(ctxCall.repo_map.files) : ctxCall.repo_map.files[k].path = p
\* modified or added by the diff and present in the snapshot
IsChanged(p) == InSnapshot(p) /\ (InList(p, ctxCall.diff.modified) \/ InList(p, ctxCall.diff.added))
\* selected by choose_files_for_context for its score alone: not changed, not
\* an entry point, not a run file
ByScoreOnly(p) ==
    /\ InList(p, ctxCall.chosen0)
    /\ ~IsChanged(p)
    /\ ~InList(p, _detect_entrypoints(AllFilesOf(ctxCall.repo_map)))
    /\ ~InList(p, RunFiles(AllFilesOf(ctxCall.repo_map)))
\* every changed file is in the list, ahead of every file that is there for
\* its score alone
ChangedFirst(list) ==
    /\ \A k \in 1..Len(ctxCall.repo_map.files) :
          IsChanged(ctxCall.repo_map.files[k].path) => InList(ctxCall.repo_map.files[k].path, list)
    /\ \A j, k \in 1..Len(list) :
          (ByScoreOnly(list[j]) /\ IsChanged(list[k])) => k < j

\* C14: with an empty goal and a non-empty diff, the list returned by
\* choose_files_for_context and the selected list returned by
\* build_llm_context contain every changed file of the snapshot, ahead of
\* every file that is selected through score ranking only.
C14_ChangedFilesFirst ==
    (ctxCall.goal = <<>> /\ DiffNonEmpty) =>
        /\ ChosenDone => ChangedFirst(ctxCall.chosen0)
        /\ BuildDone => ChangedFirst(ctxCall.chosen)

\* the same for the list of choose_files_for_context alone, when the changed
\* files are no more than MAX_FILES_TO_SHOW
C14_ChooseKeepsChangedFirst ==
    (ctxCall.goal = <<>> /\ DiffNonEmpty /\ ChosenDone
     /\ Len(ChangedOf(ctxCall.diff, AllFilesOf(ctxCall.repo_map))) <= ctxCall.conf.MAX_FILES_TO_SHOW)
        => ChangedFirst(ctxCall.chosen0)

\* build_llm_context returned a list where a file selected for its score
\* alone is ahead of a changed file, though all changed files were chosen
C14_ScoreAheadOfChanged ==
    /\ BuildDone /\ ctxCall.goal = <<>> /\ DiffNonEmpty
    /\ ChangedFirst(ctxCall.chosen0)
    /\ \E j, k \in 1..Len(ctxCall.chosen) :
          j < k /\ ByScoreOnly(ctxCall.chosen[j]) /\ IsChanged(ctxCall.chosen[k])


\* C15 as claimed: neither the list returned by choose_files_for_context nor
\* the selected list returned by build_llm_context has more paths than
\* MAX_FILES_TO_SHOW.
C15_NeverMoreThanMax ==
    /\ ChosenDone => Len(ctxCall.chosen0) <= ctxCall.conf.MAX_FILES_TO_SHOW
    /\ BuildDone => Len(ctxCall.chosen) <= ctxCall.conf.MAX_FILES_TO_SHOW

\* some file of the list before position k imports p (p is among the paths
\* its import statements resolve to)
ImportedBefore(p, list, k) ==
    \E j \in 1..(k - 1) :
        LET lists == ResolvedImports(ctxCall.disk, list[j], AllFilesOf(ctxCall.repo_map))
        IN  \E m \in 1..Len(lists) : InList(p, lists[m])

\* C15: the list returned by choose_files_for_context has at most
\* MAX_FILES_TO_SHOW paths; the selected list returned by build_llm_context
\* has at most MAX_FILES_TO_SHOW paths taken from that list, and every path
\* after them is a file imported by a file earlier in the list.
C15_MaxBeforeNeighbours ==
    /\ ChosenDone => Len(ctxCall.chosen0) <= ctxCall.conf.MAX_FILES_TO_SHOW
    /\ BuildDone =>
          \E n \in 0..Min(Len(ctxCall.chosen), ctxCall.conf.MAX_FILES_TO_SHOW) :
              /\ \A k \in 1..n : InList(ctxCall.chosen[k], ctxCall.chosen0)
              /\ \A k \in (n + 1)..Len(ctxCall.chosen) :
                    /\ ~InList(ctxCall.chosen[k], ctxCall.chosen0)
                    /\ ImportedBefore(ctxCall.chosen[k], ctxCall.chosen, k)

\* build_llm_context returned more than MAX_FILES_TO_SHOW paths, and the
\* snapshot had more files than choose_files_for_context could return
C15_Witness ==
    /\ BuildDone
    /\ Len(ctxCall.chosen0) = ctxCall.conf.MAX_FILES_TO_SHOW
    /\ Len(AllFilesOf(ctxCall.repo_map)) > ctxCall.conf.MAX_FILES_TO_SHOW + 1
    /\ Len(ctxCall.chosen) > ctxCall.conf.MAX_FILES_TO_SHOW


\* ---- neighbour expansion
\* _expand_neighbors_by_imports has returned: called by itself (the selection
\* it was given is chosen0), or in build_llm_context
ExpandReturned == ctxCall.pc = "expand_returned"
\* the list is the selection followed by paths that are not in the selection
\* and not repeated
ExtendsSelection(list, selection) ==
    /\ Len(list) >= Len(selection)
    /\ SubSeq(list, 1, Len(selection)) = selection
    /\ \A k \in (Len(selection) + 1)..Len(list) :
          /\ ~InList(list[k], selection)
          /\ \A j \in (Len(selection) + 1)..Len(list) : list[j] = list[k] => j = k

\* C18: _expand_neighbors_by_imports returns the selection it was given,
\* unchanged and in order, followed by at most max_new added paths, none of
\* which is in the given selection or repeated.
C18_AtMostMaxNewAdded ==
    ExpandReturned =>
        /\ ExtendsSelection(ctxCall.chosen, ctxCall.chosen0)
        /\ Len(ctxCall.chosen) - Len(ctxCall.chosen0) <= ctxCall.max_new

\* the part that holds: the selection comes first, unchanged, and the added
\* paths are new and not repeated
C18_SelectionKeptAddedNew ==
    ExpandReturned => ExtendsSelection(ctxCall.chosen, ctxCall.chosen0)

\* more paths were added than max_new
C18_MoreThanMaxNew ==
    /\ ExpandReturned
    /\ Len(ctxCall.chosen) - Len(ctxCall.chosen0) > ctxCall.max_new
    /\ ctxCall.max_new > 0


\* ---- bundle assembly
\* the sum of the lengths of the chunks
RECURSIVE ChunkChars(_)
ChunkChars(chunks) == IF chunks = <<>> THEN 0 ELSE Len(Head(chunks).text) + ChunkChars(Tail(chunks))
\* the chunk of a selected file, whole: the header line with the file's line
\* count and size, its snippet, a line feed
WholeChunk(rel) ==
    ChunkOf(ctxCall.disk, _file_meta_index(ctxCall.repo_map), rel, ctxCall.conf.MAX_CHARS_PER_FILE)

\* C19: the bundle has the chunks of the first n selected files, in selection
\* order and each whole, for the largest n whose chunks together are within
\* MAX_TOTAL_CONTEXT_CHARS; the budget mark is there once if a selected file
\* is left out and not at all otherwise, and no file after the first one
\* left out is added.
C19_BudgetStopsAtWholeChunks ==
    BuildDone =>
        LET chunks == ctxCall.out.chunks
            budget == ctxCall.conf.MAX_TOTAL_CONTEXT_CHARS
            n == Len(chunks)
        IN  /\ n <= Len(ctxCall.chosen)
            /\ \A k \in 1..n :
                  /\ chunks[k].rel = ctxCall.chosen[k]
                  /\ chunks[k].text = WholeChunk(ctxCall.chosen[k])
            /\ ChunkChars(chunks) <= budget
            /\ ctxCall.out.budget_marks = (IF n < Len(ctxCall.chosen) THEN 1 ELSE 0)
            /\ n < Len(ctxCall.chosen) =>
                  ChunkChars(chunks) + Len(WholeChunk(ctxCall.chosen[n + 1])) > budget

\* the budget was hit after at least one chunk, and a later selected file
\* would have fitted by itself
C19_Witness ==
    /\ BuildDone
    /\ ctxCall.out.budget_marks = 1
    /\ Len(ctxCall.out.chunks) >= 1
    /\ Len(ctxCall.chosen) >= Len(ctxCall.out.chunks) + 2
    /\ ChunkChars(ctxCall.out.chunks) + Len(WholeChunk(ctxCall.chosen[Len(ctxCall.chosen)]))
          <= ctxCall.conf.MAX_TOTAL_CONTEXT_CHARS


\* ---- patch ops (SpecOps)
OpReturned(fn) == opCall.pc = "returned" /\ opCall.fn = fn
\* the lines of the text of the call, each with its line end
CallLines == SplitLinesKeep(opCall.text)
\* a line number brought into 1..n
Clamped(x, n) == IF x < 1 THEN 1 ELSE IF x > n THEN n ELSE x
\* the lines whose numbers are in keep, in order, as one text
LinesJoined(lines, keep) == Join(SelectSeq([k \in 1..Len(lines) |-> IF k \in keep THEN lines[k] ELSE <<>>],
                                           LAMBDA l : l # <<>>))
\* the text where the lines numbered lo..hi are gone and new_text is in
\* their place: after the pos lines that remain before it
Spliced(lines, lo, hi, pos, new_text) ==
    LET kept == {k \in 1..Len(lines) : k < lo \/ k > hi}
    IN  LinesJoined(lines, {k \in kept : Cardinality({j \in kept : j < k}) < pos})
        \o new_text
        \o LinesJoined(lines, {k \in kept : Cardinality({j \in kept : j < k}) >= pos})

\* what the claim says a range replacement returns: the lines numbered
\* start..end (both brought into 1..n) are gone, new_text is in their place
\* (for an empty range: somewhere between the lines), all other lines are
\* kept in order
RangeReplaced(out, new_text) ==
    LET n == Len(CallLines)
        lo == Clamped(opCall.start_line, n)
        hi == Clamped(opCall.end_line, n)
    IN  IF n = 0 THEN out = new_text
        ELSE IF lo <= hi THEN out = Spliced(CallLines, lo, hi, lo - 1, new_text)
        ELSE \E pos \in 0..n : out = Spliced(CallLines, 1, 0, pos, new_text)

\* C16: replace_range removes exactly the lines start_line..end_line (both
\* bounds brought into 1..number of lines) and puts new_text in their place,
\* every other line unchanged and in order; delete_range does the same with
\* an empty new_text.
C16_RangeReplacedClamped ==
    /\ OpReturned("_replace_range") => RangeReplaced(opCall.out, opCall.new_text)
    /\ OpReturned("_delete_range") => RangeReplaced(opCall.out, <<>>)

\* the same where start_line is not beyond the last line and not more than
\* one beyond end_line
C16_RangeReplacedWithinLines ==
    LET n == Len(CallLines)
        lo == Max(1, opCall.start_line)
        hi == Min(n, Max(1, opCall.end_line))
    IN  (opCall.pc = "returned" /\ opCall.fn \in {"_replace_range", "_delete_range"}
         /\ lo <= n /\ lo <= hi + 1)
            => opCall.out = Spliced(CallLines, lo, hi, lo - 1, opCall.new_text)

\* replace_range(2, 2, "X\n") on "a\nb\nc\n" yields "a\nX\nc\n"
C16_Example ==
    (OpReturned("_replace_range") /\ opCall.text = <<"a", "\n", "b", "\n", "c", "\n">> /\ opCall.start_line = 2
     /\ opCall.end_line = 2 /\ opCall.new_text = <<"X", "\n">>)
        => opCall.out = <<"a", "\n", "X", "\n", "c", "\n">>

\* a start_line beyond the last line with an end_line not below it: the
\* last line is kept and new_text follows it
C16_StartBeyondLastLine ==
    /\ OpReturned("_replace_range")
    /\ Len(CallLines) >= 1
    /\ opCall.start_line > Len(CallLines)
    /\ opCall.end_line >= opCall.start_line
    /\ opCall.out = opCall.text \o opCall.new_text
    /\ EndsWith(opCall.text, <<LF>>)


\* the numbers of the lines that contain the match
Matching == {k \in 1..Len(CallLines) : Contains(CallLines[k], opCall.match)}
\* the lines the text is inserted at: the first matching line if once, every
\* matching line if not
InsertedAt ==
    IF opCall.once THEN {k \in Matching : \A j \in Matching : k <= j} ELSE Matching
\* the original lines in order, with the inserted text after (before) the
\* lines whose numbers are in at and nowhere else
WithInserts(at, after) ==
    Join([k \in 1..Len(CallLines) |->
             IF k \notin at THEN CallLines[k]
             ELSE IF after THEN CallLines[k] \o opCall.insert_text
             ELSE opCall.insert_text \o CallLines[k]])

\* C17: insert_after (insert_before) returns the original lines, all kept and
\* in order, with the text inserted immediately after (before) the first line
\* that contains the match if once is true, after (before) every line that
\* contains it if once is false, and nowhere else; with no matching line the
\* text is returned unchanged.
C17_InsertAtMatchingLines ==
    /\ OpReturned("_insert_after") => opCall.out = WithInserts(InsertedAt, TRUE)
    /\ OpReturned("_insert_before") => opCall.out = WithInserts(InsertedAt, FALSE)
    /\ (opCall.pc = "returned" /\ opCall.fn \in {"_insert_after", "_insert_before"}
        /\ Matching = {}) => opCall.out = opCall.text

\* insert_after(match "b", text "X\n", once true) on "a\nb\nc\nb\n" returned
\* "a\nb\nX\nc\nb\n": two lines match, one insertion
C17_Witness ==
    /\ OpReturned("_insert_after")
    /\ opCall.text = <<"a", "\n", "b", "\n", "c", "\n", "b", "\n">>
    /\ opCall.match = <<"b">>
    /\ opCall.insert_text = <<"X", "\n">>
    /\ opCall.once
    /\ Cardinality(Matching) = 2
    /\ opCall.out = <<"a", "\n", "b", "\n", "X", "\n", "c", "\n", "b", "\n">>


\* ---- entries with a safe path (Spec)
\* the step processes the entry Files[i], which is a dict with a safe path
SafeEntryStep ==
    /\ pc = "loop" /\ i <= Len(Files)
    /\ <<pc, i>>' # <<pc, i>>
    /\ Files[i].isDict
    /\ NormRel(Files[i].path) # <<>>
    /\ _is_safe_rel_path(NormRel(Files[i].path))
\* the step appends one skipped record with the reason and leaves every path
\* of the tree as it was
SkippedFor(reason) ==
    /\ results' = Append(results, Result(NormRel(Files[i].path), "skipped", reason, 0, <<>>, <<>>))
    /\ pc' = "loop" /\ i' = i + 1
    /\ fs' = fs
\* the step runs the operations on the empty text: failed, noop, would_update
\* with the diff against the empty text, or on to the write of the new text
RunsOnEmpty ==
    LET rel == NormRel(Files[i].path)
        ops == IF Files[i].opsIsList THEN Files[i].ops ELSE <<>>
        r == ApplyOps(<<>>, ops, 0)
    IN  IF ~r.ok
        THEN results' = Append(results, Result(rel, "failed", r.err, 0, <<>>, <<>>))
        ELSE IF r.text = <<>>
        THEN results' = Append(results, Result(rel, "noop", "", Len(ops), <<>>, <<>>))
        ELSE IF dry_run
        THEN results' = Append(results, Result(rel, "would_update", "", Len(ops),
                                               _unified_diff(rel, <<>>, r.text), r.text))
        ELSE pc' = "backup" /\ cur'.original = <<>> /\ cur'.updated = r.text

\* C20: for an entry with a safe path, a file that does not exist is skipped
\* as 'not found' unless ALLOW_CREATE_FILES is set, and then the operations
\* run on the empty text; a path that exists but is not a regular file, or
\* whose extension is not allowed, is skipped with that reason and nothing is
\* read or written.
C20_MissingOrNotEditable ==
    [][SafeEntryStep =>
        LET p == Resolve(NormRel(Files[i].path))
        IN  /\ (~Exists(fs, p) /\ ~settings.ALLOW_CREATE_FILES) => SkippedFor("not found")
            /\ (~Exists(fs, p) /\ settings.ALLOW_CREATE_FILES) => RunsOnEmpty
            /\ (Exists(fs, p) /\ ~IsFile(fs, p)) => SkippedFor("not a file")
            /\ (IsFile(fs, p) /\ ~_ensure_text_allowed(p)) => SkippedFor("file type not allowed")
    ]_vars

\* the same, where for a missing file with ALLOW_CREATE_FILES set no part of
\* the path of its directory is a file
C20_MissingOrNotEditableDirOk ==
    [][SafeEntryStep =>
        LET p == Resolve(NormRel(Files[i].path))
        IN  /\ (~Exists(fs, p) /\ ~settings.ALLOW_CREATE_FILES) => SkippedFor("not found")
            /\ (~Exists(fs, p) /\ settings.ALLOW_CREATE_FILES /\ MkdirOk(fs, Parent(p)))
                  => RunsOnEmpty
            /\ (Exists(fs, p) /\ ~IsFile(fs, p)) => SkippedFor("not a file")
            /\ (IsFile(fs, p) /\ ~_ensure_text_allowed(p)) => SkippedFor("file type not allowed")
    ]_vars

\* with ALLOW_CREATE_FILES set, the entry of a missing file below a.py made
\* the call raise
C20_RaisedForMissingFile ==
    /\ pc = "raised" /\ raised = "FileExistsError"
    /\ settings.ALLOW_CREATE_FILES
    /\ i <= Len(Files) /\ Files[i].isDict /\ Files[i].path = RelUnderFile
    /\ ~Exists(fs, Resolve(NormRel(RelUnderFile)))


\* the text is the first a lines, then new_text, then the lines after line b
PrefixNewSuffix(out, a, b, new_text) ==
    out = Join(SubSeq(CallLines, 1, a)) \o new_text
          \o Join(SubSeq(CallLines, b + 1, Len(CallLines)))

\* C25: for every text and every pair of line numbers the result of
\* replace_range (delete_range) is a prefix of the original lines, new_text
\* (nothing), and a suffix of the original lines that does not overlap the
\* prefix; delete_range never makes the text longer.
C25_PrefixAndSuffixDisjoint ==
    (opCall.pc = "returned" /\ opCall.fn \in {"_replace_range", "_delete_range"})
        => /\ \E a \in 0..Len(CallLines) : \E b \in a..Len(CallLines) :
                 PrefixNewSuffix(opCall.out, a, b, opCall.new_text)
           /\ opCall.fn = "_delete_range" => Len(opCall.out) <= Len(opCall.text)

\* the same for start_line at most one above end_line (both raised to 1)
C25_DisjointWhenOrdered ==
    (opCall.pc = "returned" /\ opCall.fn \in {"_replace_range", "_delete_range"}
     /\ Max(1, opCall.start_line) <= Max(1, opCall.end_line) + 1)
        => /\ \E a \in 0..Len(CallLines) : \E b \in a..Len(CallLines) :
                 PrefixNewSuffix(opCall.out, a, b, opCall.new_text)
           /\ opCall.fn = "_delete_range" => Len(opCall.out) <= Len(opCall.text)

\* delete_range(3, 1) on "a\nb\nc\n" returned a longer text, line 2 twice
C25_DeleteMadeLonger ==
    /\ opCall.pc = "returned" /\ opCall.fn = "_delete_range"
    /\ opCall.text = <<"a", "\n", "b", "\n", "c", "\n">> /\ opCall.start_line = 3 /\ opCall.end_line = 1
    /\ opCall.out = <<"a", "\n", "b", "\n", "b", "\n", "c", "\n">>


\* the set of the paths in a list
ListSet(list) == {list[k] : k \in 1..Len(list)}
\* the list is in strictly ascending order of its paths
Ascending(list) == \A k \in 1..(Len(list) - 1) : StrLess(list[k], list[k + 1])

\* C26: added is exactly the paths of the second snapshot that the first does
\* not have, removed exactly the paths of the first that the second does not
\* have, modified exactly the paths of both whose digests differ; each list
\* is in ascending order, and a path of both with equal digests is in none.
C26_ListsAreExact ==
    DiffDone =>
        LET B == PathsOf(diffCall.before)
            A == PathsOf(diffCall.after)
            out == diffCall.out
        IN  /\ ListSet(out.added) = A \ B
            /\ ListSet(out.removed) = B \ A
            /\ ListSet(out.modified) =
                  {p \in A \cap B : ShaIn(diffCall.before, p) # ShaIn(diffCall.after, p)}
            /\ Ascending(out.added) /\ Ascending(out.removed) /\ Ascending(out.modified)
            /\ \A p \in A \cap B :
                  ShaIn(diffCall.before, p) = ShaIn(diffCall.after, p)
                     => p \notin ListSet(out.added \o out.removed \o out.modified)

\* a diff of many moved files: added and removed have more than one path
\* each, in order
C26_Witness ==
    /\ DiffDone
    /\ Len(diffCall.out.added) > 2 /\ Len(diffCall.out.removed) > 2
    /\ diffCall.out.modified = <<>>
    /\ StrLess(diffCall.out.added[1], diffCall.out.added[2])

\* a diff with a modified path and an unchanged path of both snapshots
C26_WitnessModified ==
    /\ DiffDone
    /\ diffCall.out.modified # <<>>
    /\ \E p \in PathsOf(diffCall.before) \cap PathsOf(diffCall.after) :
          ShaIn(diffCall.before, p) = ShaIn(diffCall.after, p)


\* the paths of the snapshot of the call, as the snapshot has them
SnapshotPaths == PathsOf(ctxCall.repo_map)
\* every path of the list is a path of the snapshot with an allowed suffix,
\* none is there twice, and none is a path the diff names (removed, modified
\* or added) that the snapshot does not have
SelectionSound(list) ==
    /\ \A k \in 1..Len(list) :
          /\ list[k] \in SnapshotPaths
          /\ LowerStr(PathSuffix(list[k])) \in TextExtChars
          /\ \A j \in 1..Len(list) : list[j] = list[k] => j = k
    /\ \A p \in ListSet(ctxCall.diff.removed \o ctxCall.diff.modified \o ctxCall.diff.added) :
          p \notin SnapshotPaths => ~InList(p, list)

\* C27: every path of the list of choose_files_for_context and of the
\* selected list of build_llm_context (neighbours included) is a path of the
\* snapshot with an allowed text extension, no path is there twice, and a
\* path the diff names that the snapshot does not have is never selected.
C27_SelectionFromSnapshot ==
    /\ ChosenDone => SelectionSound(ctxCall.chosen0)
    /\ BuildDone => SelectionSound(ctxCall.chosen)

\* the same for snapshots none of whose paths has a backslash
C27_SoundWithoutBackslash ==
    (\A p \in SnapshotPaths : \A k \in 1..Len(p) : p[k] # "\\")
        => /\ ChosenDone => SelectionSound(ctxCall.chosen0)
           /\ BuildDone => SelectionSound(ctxCall.chosen)

\* build_llm_context selected lib/x.py for a snapshot whose path is lib\x.py
C27_SelectedRewrittenPath ==
    /\ BuildDone
    /\ <<"l", "i", "b", "\\", "x", ".", "p", "y">> \in SnapshotPaths
    /\ <<"l", "i", "b", "/", "x", ".", "p", "y">> \notin SnapshotPaths
    /\ InList(<<"l", "i", "b", "/", "x", ".", "p", "y">>, ctxCall.chosen)

\* the saved diff names an added path that the snapshot does not have, and
\* the selection has neighbours
C27_StaleDiffNotSelected ==
    /\ BuildDone
    /\ \E p \in ListSet(ctxCall.diff.added) : p \notin SnapshotPaths
    /\ Len(ctxCall.chosen) > Len(ctxCall.chosen0)


\* the backup copy of the file of a record, in the backup directory of the run
BackupOf(r) == BackupDirOf(run_id) \o PathParts(r.file)
\* the records of the returned real run that report a file updated which was
\* a file when the run started
UpdatedExisting ==
    {k \in 1..Len(results) :
        results[k].status = "updated" /\ IsFile(fs0, Resolve(results[k].file))}

\* C21 (as claimed): after a real apply, for every file that existed before
\* the run and is reported updated, the backup copy of the run holds the
\* content the file had when the run started, also when the plan lists the
\* same path in more than one entry.
C21_BackupHoldsContentBeforeRun ==
    (pc = "returned" /\ ~dry_run)
    => \A k \in UpdatedExisting : fs[BackupOf(results[k])] = fs0[Resolve(results[k].file)]

\* the same for the runs in which no file is reported updated twice
C21_BackupWhenUpdatedOnce ==
    (pc = "returned" /\ ~dry_run
     /\ \A j, k \in UpdatedExisting : results[j].file = results[k].file => j = k)
    => \A k \in UpdatedExisting : fs[BackupOf(results[k])] = fs0[Resolve(results[k].file)]

\* a real run updated a.py twice: the backup holds the text the first entry wrote
C21_BackupOverwritten ==
    /\ pc = "returned" /\ ~dry_run
    /\ Len(results) = 2
    /\ results[1].status = "updated" /\ results[2].status = "updated"
    /\ results[1].file = RelFile /\ results[2].file = RelFile
    /\ fs0[<<A_PY>>] = FileN(TextA)
    /\ fs[BackupOf(results[1])] = FileN(results[1].text)
    /\ results[1].text # TextA


\* a path string that starts with a separator or has a ".." segment
Escaping(rel) == Rooted(rel) \/ \E k \in 1..Len(rel) : rel[k] = DOTDOT
\* the records of the entries whose file was read
ReadReached(rs) == {k \in 1..Len(rs) : rs[k].status # "skipped"}

\* C22: in any mode and for any plan, apply_patch_plan reads, backs up and
\* writes only inside the root: an entry whose (normalised) path starts at
\* the root of the file system or has a ".." segment never reaches the read,
\* the backup or the write, and nothing outside the root changes.
C22_OnlyInsideRoot ==
    InCall => /\ \A p \in AllPaths : Outside(p) => fs[p] = fs0[p]
              /\ cur # NoCur => (~Outside(cur.p) /\ ~Escaping(cur.rel))
              /\ \A k \in ReadReached(results) : ~Escaping(results[k].file)

\* a real run on a Windows host wrote the file /a.py of the drive
C22_WroteOutsideRoot ==
    /\ pc = "returned" /\ ~dry_run /\ settings.HOST = "nt"
    /\ Len(Files) = 1 /\ Files[1].isDict /\ Files[1].path = RelAbsolute
    /\ results[1].status = "updated"
    /\ fs[<<SEP, A_PY>>] # fs0[<<SEP, A_PY>>]

\* on a POSIX host an entry with "../a.py" or "/a.py" is skipped as unsafe
C22_SkippedOnPosix ==
    /\ pc = "returned" /\ ~dry_run /\ settings.HOST = "posix"
    /\ Len(Files) = 2 /\ Files[1].isDict /\ Files[2].isDict
    /\ Files[1].path = RelAbsolute /\ Files[2].path = RelParent
    /\ results[1].reason = "unsafe path" /\ results[2].reason = "unsafe path"


\* the files the plans name whose suffix is not an allowed text type
NotTextTargets == {p \in TreeTargets : ~_ensure_text_allowed(p)}

\* C23 (as claimed): apply_patch_plan never creates or overwrites a file
\* whose extension is outside the allowed text types, whether the file
\* exists beforehand or not and whether or not file creation is allowed.
C23_NoWriteOutsideTextTypes ==
    InCall => \A p \in NotTextTargets : fs[p] = fs0[p]

\* the same for the files that exist, and for all files when creation is off
C23_NoWriteToExistingOrCreationOff ==
    InCall => \A p \in NotTextTargets :
                 (Exists(fs0, p) \/ ~settings.ALLOW_CREATE_FILES) => fs[p] = fs0[p]

\* a real run with creation allowed created c.bin; the entry for the
\* existing b.bin was skipped
C23_CreatedBinary ==
    /\ pc = "returned" /\ ~dry_run /\ settings.ALLOW_CREATE_FILES
    /\ Len(results) = 2
    /\ results[1].file = RelBinary /\ results[1].reason = "file type not allowed"
    /\ results[2].file = RelNewBinary /\ results[2].status = "updated"
    /\ ~Exists(fs0, <<C_BIN>>) /\ fs[<<C_BIN>>] = FileN(<<LF>> \o TextX)


\* the path lies below the directory
Below(p, dir) == Len(p) > Len(dir) /\ SubSeq(p, 1, Len(dir)) = dir
\* the running call follows a call that returned, and has made its run id
FollowsRun == InCall /\ log0.exists /\ run_id # <<>>
\* the copies in the backup directory of the call before are what they were
\* when the running call started
EarlierBackupsKept ==
    \A p \in AllPaths : (Below(p, log0.backup_dir) /\ IsFile(fs0, p)) => fs[p] = fs0[p]

\* C24 (as claimed): two apply calls on the same root never share a run id
\* or a backup directory, and the later call never overwrites a backup the
\* earlier one wrote, also when it starts within the same second.
C24_RunsNeverShareBackups ==
    FollowsRun => /\ run_id # log0.run_id
                  /\ BackupDirOf(run_id) # log0.backup_dir
                  /\ EarlierBackupsKept

\* a call whose run id differs from that of the call before leaves the
\* earlier backups alone
C24_OwnBackupsWhenIdsDiffer ==
    (FollowsRun /\ run_id # log0.run_id) => EarlierBackupsKept

\* two real applies of one plan within the same second: the second one wrote
\* its backup of a.py over the backup of the first
C24_BackupOverwritten ==
    /\ pc = "returned" /\ ~dry_run /\ calls = 2
    /\ log0.exists /\ ~log0.dry_run /\ run_id = log0.run_id
    /\ IsFile(fs0, log0.backup_dir \o <<A_PY>>)
    /\ fs0[log0.backup_dir \o <<A_PY>>] = FileN(TextA)
    /\ fs[log0.backup_dir \o <<A_PY>>] # FileN(TextA)

\* two real applies in different seconds: both backups are there
C24_LaterSecondOwnDirectory ==
    /\ pc = "returned" /\ ~dry_run /\ calls = 2
    /\ log0.exists /\ ~log0.dry_run /\ run_id # log0.run_id
    /\ fs[log0.backup_dir \o <<A_PY>>] = FileN(TextA)
    /\ IsFile(fs, BackupDirOf(run_id) \o <<A_PY>>)


ScanDone == scanCall.pc = "returned"
ScanPaths == [k \in 1..Len(scanCall.out.files) |-> scanCall.out.files[k].path]
\* the file has no ignored directory name among its directories, an allowed
\* suffix, a stat and a read that succeed, at most the size ceiling, and no
\* NUL byte in the bytes probed
Eligible(e) ==
    /\ \A k \in 1..Len(e.dir) : e.dir[k] \notin IGNORE_DIRS
    /\ LowerStr(PathSuffix(e.name)) \in TextExtChars
    /\ e.stat_ok /\ e.read_ok
    /\ e.size <= MAX_FILE_MB * BytesPerMB
    /\ ~(e.nul_at \in 1..BinaryProbe)
\* the path has a directory of an ignored name
UnderIgnored(path) ==
    \E d \in IGNORE_DIRS :
        \/ StartsWith(path, d \o <<"/">>)
        \/ Contains(path, <<"/">> \o d \o <<"/">>)

\* C29: the records of a snapshot are in ascending order of their paths with
\* no path twice, none lies under a directory of an ignored name at any
\* depth, and the files with a record are exactly the eligible ones: a file
\* that cannot be read, looks binary, is over the size ceiling or has a
\* suffix that is not allowed is left out, and every other file has its record.
C29_SortedPrunedAndComplete ==
    ScanDone =>
        /\ Ascending(ScanPaths)
        /\ \A k \in 1..Len(ScanPaths) : ~UnderIgnored(ScanPaths[k])
        /\ \A k \in 1..Len(scanCall.tree) :
              LET e == scanCall.tree[k]
              IN  Eligible(e) <=> InList(RelPath(e.dir, e.name), ScanPaths)

\* a scan of a tree listed out of order, with a file below lib/build, a file
\* below dist and an unreadable f.txt, returned the records of the other files
C29_Witness ==
    /\ ScanDone
    /\ ScanPaths = <<<<"b", ".", "p", "y">>, <<"l", "i", "b", "/", "a", ".", "p", "y">>, <<"l", "i", "b", "/", "b", "u", "i", "l", "d", "e", "r", "/", "g", ".", "p", "y">>, <<"w", "e", "b", "/", "u", "i", ".", "j", "s">>>>
    /\ \E k \in 1..Len(scanCall.tree) : scanCall.tree[k].dir = <<<<"l", "i", "b">>, <<"b", "u", "i", "l", "d">>>>
    /\ \E k \in 1..Len(scanCall.tree) : scanCall.tree[k].dir = <<<<"d", "i", "s", "t">>>>
    /\ \E k \in 1..Len(scanCall.tree) : ~scanCall.tree[k].read_ok
    /\ scanCall.tree[2].dir = <<<<"w", "e", "b">>>>
    /\ Walk(scanCall.tree, <<>>) # scanCall.out.files

\* a file of exactly the size ceiling and a file with its first NUL byte
\* after the probe have records
C29_WitnessBoundaries ==
    /\ ScanDone
    /\ \E k \in 1..Len(scanCall.tree) :
          /\ scanCall.tree[k].name = <<"f", ".", "t", "x", "t">>
          /\ (scanCall.tree[k].size = MAX_FILE_MB * BytesPerMB \/ scanCall.tree[k].nul_at > BinaryProbe)
          /\ InList(<<"f", ".", "t", "x", "t">>, ScanPaths)


\* diff_maps of a scan taken when the running call started and a scan taken now
DiffAcrossApply == diff_maps(scan_repo(EngineListing(fs0), 1), scan_repo(EngineListing(fs), 2))
\* the path strings of the files the running call reports updated
ReportedUpdated ==
    {PathChars(Resolve(results[k].file)) : k \in {j \in 1..Len(results) : results[j].status = "updated"}}

C28_WitnessAdded ==
    /\ pc = "returned" /\ ~dry_run /\ calls = 1
    /\ DiffAcrossApply.added = <<<<"n", "/", "e", ".", "p", "y">>>>


\* the raw output parses (after the extraction) to a dict whose "files" is a
\* list of dicts
IsPlan(v) ==
    /\ v.t = "obj"
    /\ \E k \in 1..Len(v.keys) : v.keys[k] = <<"f", "i", "l", "e", "s">>
    /\ \A k \in 1..Len(v.keys) :
          (v.keys[k] = <<"f", "i", "l", "e", "s">> /\ \A j \in (k + 1)..Len(v.keys) : v.keys[j] # <<"f", "i", "l", "e", "s">>)
          => /\ v.items[k].t = "arr"
             /\ \A m \in 1..Len(v.items[k].items) : v.items[k].items[m].t = "obj"
Passes(raw) ==
    LET r == json_loads(_extract_json_object(raw)) IN r.ok /\ IsPlan(r.val)
PlanEnded == planCall.pc \in {"returned", "raised"}

\* at most three calls of the model, the first with the plan prompt, every
\* later one a repair prompt with the raw output of the call before, and no
\* call after an output that passes
CallsBounded ==
    planCall.pc # "none" =>
        /\ Len(planCall.sent) <= Attempts
        /\ Len(planCall.got) <= Len(planCall.sent)
        /\ \A k \in 1..Len(planCall.sent) :
              IF k = 1 THEN planCall.sent[k] = PlanPrompt
              ELSE /\ planCall.sent[k].kind = "repair"
                   /\ planCall.sent[k].previous = planCall.got[k - 1]
                   /\ ~Passes(planCall.got[k - 1])
\* a call that returned gives the plan of the first output that passes, or
\* the empty plan after three outputs that do not
ReturnsPlan ==
    planCall.pc = "returned" =>
        /\ IsPlan(planCall.out)
        /\ IF \E k \in 1..Len(planCall.got) : Passes(planCall.got[k])
           THEN /\ Passes(planCall.got[Len(planCall.got)])
                /\ planCall.out = json_loads(_extract_json_object(planCall.got[Len(planCall.got)])).val
           ELSE Len(planCall.got) = Attempts /\ planCall.out = EmptyPlan
\* a call that raised had no client, or its last call of the model raised
RaisedOnlyByClient ==
    planCall.pc = "raised" =>
        \/ ~planCall.client_ok /\ planCall.sent = <<>>
        \/ planCall.client_ok /\ Len(planCall.sent) = Len(planCall.got) + 1

\* C30 (as claimed): plan_patches calls the model at most three times, each
\* repair call with the previous raw output, stops at the first response
\* that parses and passes the sanity check, and always ends with a dict
\* whose "files" is a list of objects: that response or {"files": []}.
C30_AlwaysEndsWithPlan ==
    /\ CallsBounded
    /\ ReturnsPlan
    /\ planCall.pc # "raised"

\* C30 (amended): the same, except that the call raises instead of returning
\* when _client() has no package or key or when a call of the model raises;
\* in every case the call ends.
C30_EndsWithPlanOrRaises ==
    /\ [](CallsBounded /\ ReturnsPlan /\ RaisedOnlyByClient)
    /\ <>PlanEnded

\* two outputs that do not pass, then an output with text around the plan:
\* three calls, the plan of the third is returned
C30_Witness ==
    /\ planCall.pc = "returned"
    /\ Len(planCall.sent) = Attempts
    /\ ~Passes(planCall.got[1]) /\ ~Passes(planCall.got[2])
    /\ planCall.got[3] = <<LF>> \o <<"p", "l", "a", "n", ":", " ", "{", "\"", "f", "i", "l", "e", "s", "\"", ":", " ", "[", "]", "}", " ", "d", "o", "n", "e">>
    /\ planCall.sent[3] = RepairPrompt(planCall.got[2])
    /\ planCall.out = EmptyPlan

\* three outputs that do not pass: the empty plan is returned
C30_WitnessGaveUp ==
    /\ planCall.pc = "returned"
    /\ Len(planCall.got) = Attempts
    /\ \A k \in 1..Attempts : ~Passes(planCall.got[k])
    /\ planCall.got[1] = <<"{", "\"", "f", "i", "l", "e", "s", "\"", ":", " ", "[", "1", "]", "}">>
    /\ planCall.out = EmptyPlan

\* the second call of the model raised
C30_WitnessRaised ==
    /\ planCall.pc = "raised" /\ planCall.client_ok
    /\ Len(planCall.sent) = 2 /\ Len(planCall.got) = 1

====
